---- MODULE Spec2Model ----
(***************************************************************************)
(* A model of dezoomify-rs: the orchestrator of src/src/lib.rs             *)
(* (dezoomify_level, get_dezoomer_result, process_bulk_zoomable_images,    *)
(* find_zoomlevel, choose_image, choose_level), the encoders and the       *)
(* dezoomers for IIIF, Zoomify, Google Arts & Culture and bulk text.       *)
(*                                                                         *)
(* The module holds several state machines over one set of variables.      *)
(* Each machine has its own initial predicate, actions and specification;  *)
(* the variables of the machines a specification does not run are held at  *)
(* their idle values.                                                      *)
(*   Spec          dezoomify_level                                         *)
(*   SpecDezoomer  get_dezoomer_result                                     *)
(*   SpecBulk      process_bulk / process_bulk_zoomable_images             *)
(*   SpecChoose    choose_image                                            *)
(*   SpecFind      find_zoomlevel                                          *)
(*   SpecPick      choose_level / level_picker                             *)
(*   SpecGap       GAPDezoomer::zoom_levels                                *)
(*   SpecCanvas    Canvas::add_tile                                        *)
(*   SpecPng       PngEncoder::add_tile / finalize                         *)
(*   SpecPur       Dezoomer::dezoomer_result on two fresh instances        *)
(*   SpecTitle, SpecExtract, SpecLabel, SpecParse, SpecZoomify, SpecRect,  *)
(*   SpecIiifTile  one call of a function on an input                      *)
(***************************************************************************)
EXTENDS Integers, Sequences, FiniteSets, TLC

VARIABLES
    \* ---- dezoomify_level (lib.rs 586-623)
    pc,                 \* position in dezoomify_level
    state,              \* download_state::DownloadState
    tile_refs,          \* size of the batch handed to download_batch
    pending,            \* tiles of the current batch not yet settled
    batches_requested,  \* next_tile_references calls that returned Some
    batches_returned,   \* download_batch calls that returned Ok
    fetch_results,      \* set_fetch_result calls
    in_flight,          \* download_batch calls running
    submitted,          \* tile references the level has emitted so far
    canvas_tiles,       \* tiles added to the encoder
    finalize_calls,     \* canvas.finalize() calls
    finalized_at,       \* batches returned when finalize was called (-1: never)
    output_tiles,       \* tiles in the written output (-1: nothing written)
    result,             \* what dezoomify_level returned
    \* ---- get_dezoomer_result (lib.rs 65-87)
    dz_pc,              \* position in get_dezoomer_result
    input_uri,          \* the uri argument
    i,                  \* the DezoomerInput i
    dezoomer,           \* the dezoomer instance: the calls it has seen
    needs,              \* the uri of the NeedsData being served
    trace,              \* the calls and fetches made so far, in order
    dz_result,          \* what get_dezoomer_result returned
    \* ---- choose_image (lib.rs 175-226)
    ch_pc,              \* position in choose_image / image_picker
    images,             \* the images argument
    args,               \* the Arguments
    line,               \* the last line image_picker read from stdin
    prompts,            \* the prompts image_picker has printed
    ch_result,          \* what choose_image returned
    \* ---- process_bulk / process_bulk_zoomable_images (lib.rs 317-534)
    bk_pc,              \* position in process_bulk
    bk_images,          \* the dezoomer result: the images to process
    bk_args,            \* the Arguments of the bulk run
    index,              \* the loop's index: images already processed
    current,            \* the image being processed
    stats,              \* the BulkStats
    zoom_levels,        \* the size hints of the current image's levels
    zoom_level,         \* what choose_level gave for the current image
    bk_prompts,         \* the prompts level_picker printed for this image
    bk_result,          \* what process_bulk_zoomable_images returned
    \* ---- choose_level / level_picker (lib.rs 130-173)
    lv_pc,              \* position in choose_level / level_picker
    levels,             \* the levels argument: the size hint of each level
    lv_args,            \* the Arguments
    lv_line,            \* the last line level_picker read from stdin
    lv_result,          \* what choose_level returned
    \* ---- GAPDezoomer (google_arts_and_culture/mod.rs 15-96)
    page_info,          \* GAPDezoomer.page_info
    overflow_checks,    \* the build panics on integer overflow (else wraps)
    gap_calls,          \* zoom_levels calls made on the instance
    gap_before,         \* page_info before the last call
    gap_input,          \* the DezoomerInput of the last call
    gap_result,         \* what the last call returned
    gap_prev,           \* what the call before the last returned
    \* ---- encoder::canvas::Canvas (encoder/canvas.rs 18-115)
    image,              \* Canvas.image: the pixel at each position
    icc_profile,        \* Canvas.icc_profile
    pix,                \* the pixel type Pix of the canvas
    cv_tiles,           \* the tiles passed to add_tile so far, in order
    cv_before,          \* Canvas.image before the last add_tile
    cv_icc_before,      \* Canvas.icc_profile before the last add_tile
    cv_result,          \* what the last add_tile returned
    \* ---- encoder::png_encoder::PngEncoder (encoder/png_encoder.rs 12-146)
    first_tile,         \* PngEncoder.first_tile
    file,               \* PngEncoder.file: the file is still held
    pixel_streamer,     \* PngEncoder.pixel_streamer
    header,             \* the PNG header in the file: its ICC and EXIF data
    header_writes,      \* the headers written to the file
    written,            \* the scanlines written to the file, in order
    png_tiles,          \* the tiles passed to add_tile, in order
    streamed,           \* the tiles passed on to the pixel streamer
    png_result,         \* what the last add_tile or finalize returned
    png_pc,             \* the encoder is open, or finalize was called
    \* ---- Dezoomer::dezoomer_result on two fresh instances
    pur_dezoomer,       \* the dezoomer under test: "iiif" or "bulk_text"
    pur_input,          \* the DezoomerInput both instances receive
    pur_fs,             \* the paths that exist in the file system
    pur_first,          \* what the first fresh instance returned
    pur_second,         \* what the second fresh instance returned
    \* ---- one call of a function on an input
    fn_name,            \* the function that is called
    fn_input,           \* its arguments
    fn_output,          \* what it returned
    \* ---- find_zoomlevel (lib.rs 228-251)
    fz_pc,              \* position in find_zoomlevel
    fz_args,            \* the level options of the Arguments
    fz_resolved,        \* the images into_zoom_levels was called on
    fz_levels,          \* the zoom levels of the resolved image
    fz_level_calls,     \* choose_level calls
    fz_result           \* what find_zoomlevel returned

levelVars == <<pc, state, tile_refs, pending, batches_requested,
               batches_returned, fetch_results, in_flight, submitted,
               canvas_tiles, finalize_calls, finalized_at, output_tiles,
               result>>

dezVars == <<dz_pc, input_uri, i, dezoomer, needs, trace, dz_result>>

chooseVars == <<ch_pc, images, args, line, prompts, ch_result>>

bulkVars == <<bk_pc, bk_images, bk_args, index, current, stats,
              zoom_levels, zoom_level, bk_prompts, bk_result>>

pickVars == <<lv_pc, levels, lv_args, lv_line, lv_result>>

gapVars == <<page_info, overflow_checks, gap_calls, gap_before, gap_input,
             gap_result, gap_prev>>

canvasVars == <<image, icc_profile, pix, cv_tiles, cv_before,
                cv_icc_before, cv_result>>

pngVars == <<first_tile, file, pixel_streamer, header, header_writes,
             written, png_tiles, streamed, png_result, png_pc>>

purVars == <<pur_dezoomer, pur_input, pur_fs, pur_first, pur_second>>

fnVars == <<fn_name, fn_input, fn_output>>

findVars == <<fz_pc, fz_args, fz_resolved, fz_levels, fz_level_calls,
              fz_result>>

vars == <<levelVars, dezVars, chooseVars, bulkVars, pickVars, gapVars,
          canvasVars, pngVars, purVars, fnVars, findVars>>

\* What the actions of one machine leave alone: the other machines.
notLevel == <<dezVars, chooseVars, bulkVars, pickVars, gapVars,
    canvasVars, pngVars, purVars, fnVars, findVars>>

notDez == <<levelVars, chooseVars, bulkVars, pickVars, gapVars,
    canvasVars, pngVars, purVars, fnVars, findVars>>

notChoose == <<levelVars, dezVars, bulkVars, pickVars, gapVars,
    canvasVars, pngVars, purVars, fnVars, findVars>>

notBulk == <<levelVars, dezVars, chooseVars, pickVars, gapVars,
    canvasVars, pngVars, purVars, fnVars, findVars>>

notPick == <<levelVars, dezVars, chooseVars, bulkVars, gapVars,
    canvasVars, pngVars, purVars, fnVars, findVars>>

notGap == <<levelVars, dezVars, chooseVars, bulkVars, pickVars,
    canvasVars, pngVars, purVars, fnVars, findVars>>

notCanvas == <<levelVars, dezVars, chooseVars, bulkVars, pickVars, gapVars,
    pngVars, purVars, fnVars, findVars>>

notPng == <<levelVars, dezVars, chooseVars, bulkVars, pickVars, gapVars,
    canvasVars, purVars, fnVars, findVars>>

notPur == <<levelVars, dezVars, chooseVars, bulkVars, pickVars, gapVars,
    canvasVars, pngVars, fnVars, findVars>>

notFn == <<levelVars, dezVars, chooseVars, bulkVars, pickVars, gapVars,
    canvasVars, pngVars, purVars, findVars>>

\* find_zoomlevel calls choose_image: its actions leave the others alone.
notFind == <<levelVars, dezVars, bulkVars, pickVars, gapVars,
    canvasVars, pngVars, purVars, fnVars>>

(***************************************************************************)
(* Bounds of the model.                                                    *)
(***************************************************************************)
MaxBatches == 2
MaxBatchSize == 2
MaxRounds == 2
MaxImages == 3
MaxIndex == 4
MaxLineLen == 2
MaxPrompts == 2
MaxBulkImages == 2
MaxLevels == 2
MaxPyramid == 2
MaxGapCalls == 2
MaxCanvasTiles == 2
MaxCanvases == 2
MaxTextLines == 2
UWidth == 4

None == "None"

(***************************************************************************)
(* download_state::DownloadState.  The module download_state is not among  *)
(* the sources; its counters are those of the specification's data model,  *)
(* its operations those the orchestrator and its tests call.               *)
(***************************************************************************)
DownloadStateNew ==
    [total_tiles |-> 0, successful_tiles |-> 0, failed_tiles |-> 0]

add_batch(s, n) == [s EXCEPT !.total_tiles = @ + n]

record_success(s) == [s EXCEPT !.successful_tiles = @ + 1]

record_failure(s) == [s EXCEPT !.failed_tiles = @ + 1]

is_successful(s) == s.successful_tiles > 0

\* test_determine_final_result: add_batch(10) and 8 record_success, with no
\* failure recorded, is a partial failure.
has_partial_failure(s) == s.successful_tiles < s.total_tiles

(***************************************************************************)
(* Results of dezoomify_level.                                             *)
(***************************************************************************)
NoResult == [kind |-> "none", successful_tiles |-> 0, total_tiles |-> 0]

Res(k) == [kind |-> k, successful_tiles |-> 0, total_tiles |-> 0]

PartialDownload(s) ==
    [kind |-> "PartialDownload",
     successful_tiles |-> s.successful_tiles,
     total_tiles |-> s.total_tiles]

\* A validation that accepts every state.
validate_download_always_ok(s) == Res("Ok")

\* validate_download_success: Err(NoTile) unless the state is successful.
validate_download_success(s) ==
    IF ~is_successful(s) THEN Res("NoTile") ELSE Res("Ok")

\* determine_final_result with the two counters of PartialDownload swapped.
determine_final_result_swapped(s) ==
    IF has_partial_failure(s)
    THEN [kind |-> "PartialDownload",
          successful_tiles |-> s.total_tiles,
          total_tiles |-> s.successful_tiles]
    ELSE Res("Ok")

\* determine_final_result: PartialDownload on a partial failure, else Ok.
determine_final_result(s) ==
    IF has_partial_failure(s) THEN PartialDownload(s) ELSE Res("Ok")

LevelInit ==
    /\ pc = "start"
    /\ state = DownloadStateNew
    /\ tile_refs = 0
    /\ pending = 0
    /\ batches_requested = 0
    /\ batches_returned = 0
    /\ fetch_results = 0
    /\ in_flight = 0
    /\ submitted = 0
    /\ canvas_tiles = 0
    /\ finalize_calls = 0
    /\ finalized_at = -1
    /\ output_tiles = -1
    /\ result = NoResult

LevelIdle ==
    /\ pc = "idle"
    /\ state = DownloadStateNew
    /\ tile_refs = 0
    /\ pending = 0
    /\ batches_requested = 0
    /\ batches_returned = 0
    /\ fetch_results = 0
    /\ in_flight = 0
    /\ submitted = 0
    /\ canvas_tiles = 0
    /\ finalize_calls = 0
    /\ finalized_at = -1
    /\ output_tiles = -1
    /\ result = NoResult

\* TileDownloadCoordinator::new(&zoom_level, args)? and DownloadState::new().
CoordinatorNew ==
    /\ pc = "start"
    /\ \E ok \in BOOLEAN :
          IF ok
          THEN /\ pc' = "loop"
               /\ result' = result
          ELSE /\ pc' = "done"
               /\ result' = Res("Fatal")
    /\ state' = DownloadStateNew
    /\ UNCHANGED <<tile_refs, pending, batches_requested, batches_returned,
                   fetch_results, in_flight, submitted, canvas_tiles,
                   finalize_calls, finalized_at, output_tiles>>
    /\ UNCHANGED notLevel

\* A loop that builds its DownloadState anew for every batch.
NextBatchFreshState ==
    /\ pc = "loop"
    /\ batches_requested < MaxBatches
    /\ \E n \in 1..MaxBatchSize :
          /\ submitted' = submitted + n
          /\ tile_refs' = n
          /\ pending' = n
          /\ state' = add_batch(DownloadStateNew, n)
    /\ batches_requested' = batches_requested + 1
    /\ in_flight' = in_flight + 1
    /\ pc' = "downloading"
    /\ UNCHANGED <<batches_returned, fetch_results, canvas_tiles,
                   finalize_calls, finalized_at, output_tiles, result>>
    /\ UNCHANGED notLevel

\* while let Some(tile_refs) = zoom_level_iter.next_tile_references():
\* the level emits a non-empty batch, which is passed to download_batch;
\* download_batch starts by counting the batch (add_batch).
NextBatch ==
    /\ pc = "loop"
    /\ batches_requested < MaxBatches
    /\ \E n \in 1..MaxBatchSize :
          /\ submitted' = submitted + n
          /\ tile_refs' = n
          /\ pending' = n
          /\ state' = add_batch(state, n)
    /\ batches_requested' = batches_requested + 1
    /\ in_flight' = in_flight + 1
    /\ pc' = "downloading"
    /\ UNCHANGED <<batches_returned, fetch_results, canvas_tiles,
                   finalize_calls, finalized_at, output_tiles, result>>
    /\ UNCHANGED notLevel

\* next_tile_references() returned None: the loop ends.
NoMoreBatches ==
    /\ pc = "loop"
    /\ pc' = "validate"
    /\ UNCHANGED <<state, tile_refs, pending, batches_requested,
                   batches_returned, fetch_results, in_flight, submitted,
                   canvas_tiles, finalize_calls, finalized_at, output_tiles, result>>
    /\ UNCHANGED notLevel

\* download_batch: one tile of the batch was fetched and given to the encoder.
TileSuccess ==
    /\ pc = "downloading"
    /\ pending > 0
    /\ pending' = pending - 1
    /\ state' = record_success(state)
    /\ canvas_tiles' = canvas_tiles + 1
    /\ UNCHANGED <<pc, tile_refs, batches_requested, batches_returned,
                   fetch_results, in_flight, submitted, finalize_calls, finalized_at,
                   output_tiles, result>>
    /\ UNCHANGED notLevel

\* download_batch: one tile of the batch exhausted its retries.
TileFailure ==
    /\ pc = "downloading"
    /\ pending > 0
    /\ pending' = pending - 1
    /\ state' = record_failure(state)
    /\ UNCHANGED <<pc, tile_refs, batches_requested, batches_returned,
                   fetch_results, in_flight, submitted, canvas_tiles,
                   finalize_calls, finalized_at, output_tiles, result>>
    /\ UNCHANGED notLevel

\* A loop that finalizes the encoder after every batch.
DownloadBatchReturnFinalizing ==
    /\ pc = "downloading"
    /\ pending = 0
    /\ pc' = "downloaded"
    /\ batches_returned' = batches_returned + 1
    /\ in_flight' = in_flight - 1
    /\ finalize_calls' = finalize_calls + 1
    /\ finalized_at' = batches_returned + 1
    /\ UNCHANGED <<state, tile_refs, pending, batches_requested,
                   fetch_results, submitted, canvas_tiles, output_tiles,
                   result>>
    /\ UNCHANGED notLevel

\* download_batch(...).await returned Ok(()).
DownloadBatchReturn ==
    /\ pc = "downloading"
    /\ pending = 0
    /\ pc' = "downloaded"
    /\ batches_returned' = batches_returned + 1
    /\ in_flight' = in_flight - 1
    /\ UNCHANGED <<state, tile_refs, pending, batches_requested,
                   fetch_results, submitted, canvas_tiles, finalize_calls, finalized_at,
                   output_tiles, result>>
    /\ UNCHANGED notLevel

\* A loop that logs a fatal error of download_batch and goes on.
DownloadBatchFatalIgnored ==
    /\ pc = "downloading"
    /\ pc' = "downloaded"
    /\ result' = Res("Fatal")
    /\ in_flight' = in_flight - 1
    /\ UNCHANGED <<state, tile_refs, pending, batches_requested,
                   batches_returned, fetch_results, submitted, canvas_tiles,
                   finalize_calls, finalized_at, output_tiles>>
    /\ UNCHANGED notLevel

\* download_batch(...).await? returned a fatal error: `?` returns it.
DownloadBatchFatal ==
    /\ pc = "downloading"
    /\ pc' = "done"
    /\ result' = Res("Fatal")
    /\ in_flight' = in_flight - 1
    /\ UNCHANGED <<state, tile_refs, pending, batches_requested,
                   batches_returned, fetch_results, submitted, canvas_tiles,
                   finalize_calls, finalized_at, output_tiles>>
    /\ UNCHANGED notLevel

\* A loop that goes on to the next batch without calling set_fetch_result.
SetFetchResultSkipped ==
    /\ pc = "downloaded"
    /\ pc' = "loop"
    /\ UNCHANGED <<state, tile_refs, pending, batches_requested,
                   batches_returned, fetch_results, in_flight, submitted,
                   canvas_tiles, finalize_calls, finalized_at, output_tiles,
                   result>>
    /\ UNCHANGED notLevel

\* zoom_level_iter.set_fetch_result(state.create_fetch_result()).
SetFetchResult ==
    /\ pc = "downloaded"
    /\ fetch_results' = fetch_results + 1
    /\ pc' = "loop"
    /\ UNCHANGED <<state, tile_refs, pending, batches_requested,
                   batches_returned, in_flight, submitted, canvas_tiles,
                   finalize_calls, finalized_at, output_tiles, result>>
    /\ UNCHANGED notLevel

\* validate_download_success(&state)?
ValidateDownloadSuccess ==
    /\ pc = "validate"
    /\ IF validate_download_success(state).kind = "Ok"
       THEN /\ pc' = "finalize"
            /\ result' = result
       ELSE /\ pc' = "done"
            /\ result' = validate_download_success(state)
    /\ UNCHANGED <<state, tile_refs, pending, batches_requested,
                   batches_returned, fetch_results, in_flight, submitted,
                   canvas_tiles, finalize_calls, finalized_at, output_tiles>>
    /\ UNCHANGED notLevel

\* A finalize step that classifies the run without writing the output.
FinalizeSkipped ==
    /\ pc = "finalize"
    /\ pc' = "classify"
    /\ UNCHANGED <<state, tile_refs, pending, batches_requested,
                   batches_returned, fetch_results, in_flight, submitted,
                   canvas_tiles, finalize_calls, finalized_at, output_tiles,
                   result>>
    /\ UNCHANGED notLevel

\* canvas.finalize().await?  The encoder writes what it was given, or fails.
Finalize ==
    /\ pc = "finalize"
    /\ finalize_calls' = finalize_calls + 1
    /\ finalized_at' = batches_returned
    /\ \E ok \in BOOLEAN :
          IF ok
          THEN /\ output_tiles' = canvas_tiles
               /\ pc' = "classify"
               /\ result' = result
          ELSE /\ output_tiles' = output_tiles
               /\ pc' = "done"
               /\ result' = Res("Io")
    /\ UNCHANGED <<state, tile_refs, pending, batches_requested,
                   batches_returned, fetch_results, in_flight, submitted,
                   canvas_tiles>>
    /\ UNCHANGED notLevel

\* determine_final_result(&state, destination)
DetermineFinalResult ==
    /\ pc = "classify"
    /\ result' = determine_final_result(state)
    /\ pc' = "done"
    /\ UNCHANGED <<state, tile_refs, pending, batches_requested,
                   batches_returned, fetch_results, in_flight, submitted,
                   canvas_tiles, finalize_calls, finalized_at, output_tiles>>
    /\ UNCHANGED notLevel


(***************************************************************************)
(* get_dezoomer_result: the NeedsData loop (lib.rs 65-87).                 *)
(***************************************************************************)
Uris == {"u0", "u1", "u2"}

Bytes == {"b1", "b2"}

\* PageContents
Unknown == [kind |-> "Unknown", data |-> None]

Success(b) == [kind |-> "Success", data |-> b]

Error(msg) == [kind |-> "Error", data |-> msg]

\* What fetch_uri can return: Ok(bytes) or Err(e).
FetchOutcomes ==
    {[ok |-> TRUE, data |-> b] : b \in Bytes}
        \cup {[ok |-> FALSE, data |-> "e"]}

\* impl From<Result<Vec<u8>, ZoomError>> for PageContents, as used by
\* fetch_uri(&uri, http).await.into()
into(r) == IF r.ok THEN Success(r.data) ELSE Error(r.data)

\* What Dezoomer::dezoomer_result can answer.
NeedsData(u) == [kind |-> "NeedsData", data |-> u]

DezOk(r) == [kind |-> "Ok", data |-> r]

DezErr(e) == [kind |-> "Err", data |-> e]

FinalResponses ==
    {DezOk("images")} \cup {DezErr(e) : e \in {"WrongDezoomer", "Other"}}

CallEvent(inp, seen, resp) ==
    [ev |-> "call", uri |-> inp.uri, contents |-> inp.contents,
     seen |-> seen, response |-> resp]

FetchEvent(u, out) ==
    [ev |-> "fetch", uri |-> u, contents |-> into(out),
     seen |-> 0, response |-> None]

\* The fetch rounds made so far.
Rounds == Cardinality({k \in 1..Len(trace) : trace[k].ev = "fetch"})

DezInit ==
    /\ dz_pc = "call"
    /\ input_uri \in Uris
    /\ i = [uri |-> input_uri, contents |-> Unknown]
    /\ dezoomer = [seen |-> 0]
    /\ needs = None
    /\ trace = <<>>
    /\ dz_result = None

DezIdle ==
    /\ dz_pc = "idle"
    /\ input_uri = "u0"
    /\ i = [uri |-> "u0", contents |-> Unknown]
    /\ dezoomer = [seen |-> 0]
    /\ needs = None
    /\ trace = <<>>
    /\ dz_result = None

\* The loop as it would be with a fresh dezoomer built for every call.
CallDezoomerFresh ==
    /\ dz_pc = "call"
    /\ \E resp \in FinalResponses \cup {NeedsData(u) : u \in Uris} :
          /\ resp.kind = "NeedsData" => Rounds < MaxRounds
          /\ trace' = Append(trace, CallEvent(i, 0, resp))
          /\ IF resp.kind = "NeedsData"
             THEN /\ needs' = resp.data
                  /\ dz_pc' = "fetch"
                  /\ dz_result' = dz_result
             ELSE /\ needs' = needs
                  /\ dz_pc' = "done"
                  /\ dz_result' = resp
    /\ dezoomer' = [seen |-> 1]
    /\ UNCHANGED <<input_uri, i>>
    /\ UNCHANGED notDez

\* match dezoomer.dezoomer_result(&i): the dezoomer answers Ok, NeedsData
\* or another error; Ok and the other errors are returned.
CallDezoomer ==
    /\ dz_pc = "call"
    /\ \E resp \in FinalResponses \cup {NeedsData(u) : u \in Uris} :
          /\ resp.kind = "NeedsData" => Rounds < MaxRounds
          /\ trace' = Append(trace, CallEvent(i, dezoomer.seen, resp))
          /\ IF resp.kind = "NeedsData"
             THEN /\ needs' = resp.data
                  /\ dz_pc' = "fetch"
                  /\ dz_result' = dz_result
             ELSE /\ needs' = needs
                  /\ dz_pc' = "done"
                  /\ dz_result' = resp
    /\ dezoomer' = [seen |-> dezoomer.seen + 1]
    /\ UNCHANGED <<input_uri, i>>
    /\ UNCHANGED notDez

\* The NeedsData arm with a cap on the number of rounds.
FetchNeededCapped ==
    /\ dz_pc = "fetch"
    /\ IF Rounds >= 1
       THEN /\ dz_pc' = "done"
            /\ dz_result' = DezErr("Other")
            /\ UNCHANGED <<i, trace>>
       ELSE /\ \E out \in FetchOutcomes :
                  /\ trace' = Append(trace, FetchEvent(needs, out))
                  /\ i' = [uri |-> needs, contents |-> into(out)]
            /\ dz_pc' = "call"
            /\ dz_result' = dz_result
    /\ UNCHANGED <<input_uri, dezoomer, needs>>
    /\ UNCHANGED notDez

\* Err(NeedsData { uri }): contents = fetch_uri(&uri, http).await.into();
\* i.uri = uri; i.contents = contents; and the loop goes round.
FetchNeeded ==
    /\ dz_pc = "fetch"
    /\ \E out \in FetchOutcomes :
          /\ trace' = Append(trace, FetchEvent(needs, out))
          /\ i' = [uri |-> needs, contents |-> into(out)]
    /\ dz_pc' = "call"
    /\ UNCHANGED <<input_uri, dezoomer, needs, dz_result>>
    /\ UNCHANGED notDez

(***************************************************************************)
(* Selection: parse_level_index, resolve_image_index, image_picker and     *)
(* choose_image (lib.rs 100-121, 175-226).                                 *)
(***************************************************************************)

\* Option<T>: None is the empty sequence, Some(v) the sequence of v alone.
NoneOpt == <<>>

Some(v) == <<v>>

IsSome(o) == o # <<>>

Unwrap(o) == o[1]

\* The characters a line of standard input is made of here.
Chars == {"0", "1", "2", "+", "a"}

Digit(c) == CASE c = "0" -> 0 [] c = "1" -> 1 [] c = "2" -> 2 [] OTHER -> -1

\* The lines stdin_line can return: the strings of at most MaxLineLen
\* characters.
Lines == UNION {[1..n -> Chars] : n \in 0..MaxLineLen}

\* The value of a non-empty string of decimal digits, -1 when a character
\* is no digit.
RECURSIVE DigitsValue(_)
DigitsValue(s) ==
    IF Len(s) = 0 THEN 0
    ELSE LET d == Digit(s[Len(s)])
             r == DigitsValue(SubSeq(s, 1, Len(s) - 1))
         IN IF d = -1 \/ r = -1 THEN -1 ELSE 10 * r + d

\* str::parse::<usize>: an optional '+' and then at least one digit, nothing
\* else; None otherwise.
ParseUsize(s) ==
    LET body == IF Len(s) > 0 /\ s[1] = "+" THEN SubSeq(s, 2, Len(s)) ELSE s
        v == DigitsValue(body)
    IN IF Len(body) = 0 \/ v = -1 THEN NoneOpt ELSE Some(v)

\* parse_level_index: input.parse::<usize>().ok().filter(|&idx| idx < max_index)
parse_level_index(input, max_index) ==
    LET idx == ParseUsize(input)
    IN IF IsSome(idx) /\ Unwrap(idx) < max_index THEN idx ELSE NoneOpt

\* resolve_image_index: the requested index, or the last one when the
\* request is out of bounds.
resolve_image_index(requested, available_count) ==
    IF requested < available_count THEN requested ELSE available_count - 1

\* Arguments::is_bulk_mode: a bulk source was given.
is_bulk_mode(a) == a.bulk

\* Results of choose_image: Ok(image), Err(e), or the call is in the picker.
ChOk(idx, img) == [kind |-> "Ok", index |-> Some(idx), image |-> img]

ChErr(e) == [kind |-> "Err", index |-> NoneOpt, image |-> e]

ChPrompt == [kind |-> "Prompt", index |-> NoneOpt, image |-> None]

ChNone == [kind |-> "none", index |-> NoneOpt, image |-> None]

\* images.swap_remove(idx): the element at the 0-based position idx.
swap_remove(list, idx) == list[idx + 1]

\* choose_image with the bulk-mode branch tried before image_index.
choose_image_bulk_first(imgs, a) ==
    IF Len(imgs) = 0 THEN ChErr("NoLevels")
    ELSE IF Len(imgs) = 1 THEN ChOk(0, swap_remove(imgs, 0))
    ELSE IF is_bulk_mode(a) THEN ChOk(0, swap_remove(imgs, 0))
    ELSE IF IsSome(a.image_index)
    THEN LET actual_index ==
                 resolve_image_index(Unwrap(a.image_index), Len(imgs))
         IN ChOk(actual_index, swap_remove(imgs, actual_index))
    ELSE ChPrompt

\* choose_image up to the call of image_picker.
choose_image(imgs, a) ==
    IF Len(imgs) = 0 THEN ChErr("NoLevels")
    ELSE IF Len(imgs) = 1 THEN ChOk(0, swap_remove(imgs, 0))
    ELSE IF IsSome(a.image_index)
    THEN LET actual_index ==
                 resolve_image_index(Unwrap(a.image_index), Len(imgs))
         IN ChOk(actual_index, swap_remove(imgs, actual_index))
    ELSE IF is_bulk_mode(a) THEN ChOk(0, swap_remove(imgs, 0))
    ELSE ChPrompt

\* The images of a dezoomer result: distinct, in list order.
AllImages == <<"imgA", "imgB", "imgC", "imgD", "imgE">>

ChooseInit ==
    /\ ch_pc = "start"
    /\ \E n \in 0..MaxImages : images = SubSeq(AllImages, 1, n)
    /\ args \in [image_index : {NoneOpt} \cup {Some(k) : k \in 0..MaxIndex},
                 bulk : BOOLEAN]
    /\ line = <<>>
    /\ prompts = 0
    /\ ch_result = ChNone

ChooseIdle ==
    /\ ch_pc = "idle"
    /\ images = <<>>
    /\ args = [image_index |-> NoneOpt, bulk |-> FALSE]
    /\ line = <<>>
    /\ prompts = 0
    /\ ch_result = ChNone

\* choose_image(images, args), up to its return or to the picker's prompt.
ChooseImage ==
    /\ ch_pc = "start"
    /\ LET r == choose_image(images, args)
       IN IF r.kind = "Prompt"
          THEN /\ ch_pc' = "prompt"
               /\ prompts' = prompts + 1
               /\ ch_result' = ch_result
          ELSE /\ ch_pc' = "done"
               /\ prompts' = prompts
               /\ ch_result' = r
    /\ UNCHANGED <<images, args, line>>
    /\ UNCHANGED notChoose

\* image_picker: stdin_line()? gave a line; a valid index returns that
\* image, any other line is refused and the prompt is printed again.
ImagePickerLine ==
    /\ ch_pc = "prompt"
    /\ \E l \in Lines :
          /\ line' = l
          /\ LET idx == parse_level_index(l, Len(images))
             IN IF IsSome(idx)
                THEN /\ ch_pc' = "done"
                     /\ ch_result' =
                            ChOk(Unwrap(idx), swap_remove(images, Unwrap(idx)))
                     /\ prompts' = prompts
                ELSE /\ prompts < MaxPrompts
                     /\ ch_pc' = "prompt"
                     /\ ch_result' = ch_result
                     /\ prompts' = prompts + 1
    /\ UNCHANGED <<images, args>>
    /\ UNCHANGED notChoose

\* image_picker: stdin_line()? failed (end of input, or a read error).
ImagePickerEof ==
    /\ ch_pc = "prompt"
    /\ ch_pc' = "done"
    /\ ch_result' = ChErr("Io")
    /\ UNCHANGED <<images, args, line, prompts>>
    /\ UNCHANGED notChoose

(***************************************************************************)
(* Level selection: resolve_level_index, find_level_with_size,             *)
(* choose_level, level_picker (lib.rs 105-173).  A zoom level is           *)
(* represented by its size hint, an Option<Vec2d>.                         *)
(***************************************************************************)
Vec2d(px, py) == [x |-> px, y |-> py]

Dims == 1..2

SizeHints == {NoneOpt} \cup {Some(Vec2d(px, py)) : px \in Dims, py \in Dims}

\* The lists of at most n levels.
LevelLists(n) == UNION {[1..k -> SizeHints] : k \in 0..n}

\* resolve_level_index: the requested index, or the last one when the
\* request is out of bounds.
resolve_level_index(requested, available_count) ==
    IF requested < available_count THEN requested ELSE available_count - 1

\* lvls.iter().position(|l| l.size_hint() == Some(target_size))
find_level_with_size(lvls, target_size) ==
    LET hits == {k \in 1..Len(lvls) : lvls[k] = Some(target_size)}
    IN IF hits = {} THEN NoneOpt
       ELSE Some((CHOOSE k \in hits : \A j \in hits : k <= j) - 1)

\* lvls.iter().filter_map(|l| l.size_hint()): the positions with a hint.
Hinted(lvls) == {k \in 1..Len(lvls) : IsSome(lvls[k])}

Area(v) == v.x * v.y

\* Arguments::best_size: the size policy of --max-width / --max-height.
\* Without either there is no policy; otherwise the size of largest area
\* among the sizes within the limits (the last of them when several have
\* that area, as Iterator::max_by_key returns), None when no size fits.
best_size(a, lvls) ==
    LET fits(v) == /\ (IsSome(a.max_width) => v.x <= Unwrap(a.max_width))
                   /\ (IsSome(a.max_height) => v.y <= Unwrap(a.max_height))
        cand == {k \in Hinted(lvls) : fits(Unwrap(lvls[k]))}
        best == {k \in cand :
                    \A j \in cand :
                        Area(Unwrap(lvls[j])) <= Area(Unwrap(lvls[k]))}
    IN IF ~IsSome(a.max_width) /\ ~IsSome(a.max_height) THEN NoneOpt
       ELSE IF cand = {} THEN NoneOpt
       ELSE lvls[CHOOSE k \in best : \A j \in best : j <= k]

\* choose_level with the size policy tried before zoom_level.
choose_level_size_first(lvls, a) ==
    IF Len(lvls) = 0 THEN ChErr("NoLevels")
    ELSE IF Len(lvls) = 1 THEN ChOk(0, swap_remove(lvls, 0))
    ELSE LET best == best_size(a, lvls)
             pos == IF IsSome(best)
                    THEN find_level_with_size(lvls, Unwrap(best))
                    ELSE NoneOpt
         IN IF IsSome(pos)
            THEN ChOk(Unwrap(pos), swap_remove(lvls, Unwrap(pos)))
            ELSE IF IsSome(a.zoom_level)
            THEN LET actual_level ==
                         resolve_level_index(Unwrap(a.zoom_level), Len(lvls))
                 IN ChOk(actual_level, swap_remove(lvls, actual_level))
            ELSE ChPrompt

\* choose_level up to the call of level_picker.
choose_level(lvls, a) ==
    IF Len(lvls) = 0 THEN ChErr("NoLevels")
    ELSE IF Len(lvls) = 1 THEN ChOk(0, swap_remove(lvls, 0))
    ELSE IF IsSome(a.zoom_level)
    THEN LET actual_level ==
                 resolve_level_index(Unwrap(a.zoom_level), Len(lvls))
         IN ChOk(actual_level, swap_remove(lvls, actual_level))
    ELSE LET best == best_size(a, lvls)
             pos == IF IsSome(best)
                    THEN find_level_with_size(lvls, Unwrap(best))
                    ELSE NoneOpt
         IN IF IsSome(pos)
            THEN ChOk(Unwrap(pos), swap_remove(lvls, Unwrap(pos)))
            ELSE ChPrompt

PickInit ==
    /\ lv_pc = "start"
    /\ levels \in LevelLists(MaxLevels)
    /\ lv_args \in [zoom_level : {NoneOpt, Some(0), Some(1), Some(MaxLevels)},
                    max_width : {NoneOpt, Some(1)},
                    max_height : {NoneOpt, Some(1)},
                    bulk : {FALSE}]
    /\ lv_line = NoneOpt
    /\ lv_result = ChNone

PickIdle ==
    /\ lv_pc = "idle"
    /\ levels = <<>>
    /\ lv_args = [zoom_level |-> NoneOpt, max_width |-> NoneOpt,
                  max_height |-> NoneOpt, bulk |-> FALSE]
    /\ lv_line = NoneOpt
    /\ lv_result = ChNone

\* choose_level(levels, args), up to its return or to the picker's prompt.
PickLevel ==
    /\ lv_pc = "start"
    /\ LET r == choose_level(levels, lv_args)
       IN IF r.kind = "Prompt"
          THEN /\ lv_pc' = "prompt"
               /\ lv_result' = lv_result
          ELSE /\ lv_pc' = "done"
               /\ lv_result' = r
    /\ UNCHANGED <<levels, lv_args, lv_line>>
    /\ UNCHANGED notPick

\* level_picker: stdin_line()? gave a line; a valid index returns that
\* level, any other line is refused and the prompt is printed again.
PickerLine ==
    /\ lv_pc = "prompt"
    /\ \E l \in Lines :
          /\ lv_line' = Some(l)
          /\ LET idx == parse_level_index(l, Len(levels))
             IN IF IsSome(idx)
                THEN /\ lv_pc' = "done"
                     /\ lv_result' =
                            ChOk(Unwrap(idx), swap_remove(levels, Unwrap(idx)))
                ELSE /\ lv_pc' = "prompt"
                     /\ lv_result' = lv_result
    /\ UNCHANGED <<levels, lv_args>>
    /\ UNCHANGED notPick

\* level_picker: stdin_line()? failed (end of input, or a read error).
PickerEof ==
    /\ lv_pc = "prompt"
    /\ lv_pc' = "done"
    /\ lv_result' = ChErr("Io")
    /\ UNCHANGED <<levels, lv_args, lv_line>>
    /\ UNCHANGED notPick

(***************************************************************************)
(* Bulk mode: BulkStats, process_bulk, process_bulk_zoomable_images        *)
(* (lib.rs 286-534).                                                       *)
(***************************************************************************)

\* BulkStats::new()
BulkStatsNew ==
    [total_images |-> 0, successful_images |-> 0, failed_images |-> 0,
     partial_downloads |-> 0]

record_success_bulk(s) == [s EXCEPT !.successful_images = @ + 1]

\* record_partial counting the image as failed as well.
record_partial_and_failure(s) ==
    [s EXCEPT !.partial_downloads = @ + 1, !.failed_images = @ + 1]

record_partial(s) == [s EXCEPT !.partial_downloads = @ + 1]

record_failure_bulk(s) == [s EXCEPT !.failed_images = @ + 1]

set_total(s, total) == [s EXCEPT !.total_images = total]

\* What dezoomify_level can return: the kinds of `result` under Spec.
LevelResults == {"Ok", "PartialDownload", "NoTile", "Fatal", "Io"}

BulkInit ==
    /\ bk_pc = "start"
    /\ \E n \in 0..MaxBulkImages : bk_images = SubSeq(AllImages, 1, n)
    /\ bk_args \in [zoom_level : {NoneOpt, Some(0), Some(MaxLevels)},
                    max_width : {NoneOpt, Some(1)},
                    max_height : {NoneOpt, Some(1)},
                    bulk : {TRUE}]
    /\ index = 0
    /\ current = None
    /\ stats = BulkStatsNew
    /\ zoom_levels = <<>>
    /\ zoom_level = ChNone
    /\ bk_prompts = 0
    /\ bk_result = None

BulkIdle ==
    /\ bk_pc = "idle"
    /\ bk_images = <<>>
    /\ bk_args = [zoom_level |-> NoneOpt, max_width |-> NoneOpt,
                  max_height |-> NoneOpt, bulk |-> TRUE]
    /\ index = 0
    /\ current = None
    /\ stats = BulkStatsNew
    /\ zoom_levels = <<>>
    /\ zoom_level = ChNone
    /\ bk_prompts = 0
    /\ bk_result = None

\* `continue` after stats.record_failure(), and the end of the loop body:
\* the next iteration.
NextIteration(s) ==
    /\ stats' = s
    /\ index' = index + 1
    /\ current' = None
    /\ zoom_levels' = <<>>
    /\ zoom_level' = ChNone
    /\ bk_prompts' = 0
    /\ bk_pc' = "loop"
    /\ UNCHANGED <<bk_images, bk_args, bk_result>>

\* process_bulk: stats.set_total(dezoomer_result.len()), then the call of
\* process_bulk_zoomable_images.
SetTotal ==
    /\ bk_pc = "start"
    /\ stats' = set_total(stats, Len(bk_images))
    /\ bk_pc' = "loop"
    /\ UNCHANGED <<bk_images, bk_args, index, current, zoom_levels,
                   zoom_level, bk_prompts, bk_result>>
    /\ UNCHANGED notBulk

\* for (index, zoomable_image) in images.into_iter().enumerate():
\* zoomable_image.into_zoom_levels(http).await gave the levels.
ResolveImage ==
    /\ bk_pc = "loop"
    /\ index < Len(bk_images)
    /\ current' = bk_images[index + 1]
    /\ \E lvls \in LevelLists(MaxLevels) : zoom_levels' = lvls
    /\ bk_pc' = "choose"
    /\ UNCHANGED <<bk_images, bk_args, index, stats, zoom_level, bk_prompts,
                   bk_result>>
    /\ UNCHANGED notBulk

\* into_zoom_levels failed: record_failure and continue.
ResolveImageFailed ==
    /\ bk_pc = "loop"
    /\ index < Len(bk_images)
    /\ NextIteration(record_failure_bulk(stats))
    /\ UNCHANGED notBulk

\* choose_level(zoom_levels, args): a level, an error (record_failure and
\* continue), or level_picker's prompt.
ChooseLevel ==
    /\ bk_pc = "choose"
    /\ LET r == choose_level(zoom_levels, bk_args)
       IN CASE r.kind = "Ok" ->
                 /\ zoom_level' = r
                 /\ bk_pc' = "reserve"
                 /\ UNCHANGED <<bk_images, bk_args, index, current, stats,
                                zoom_levels, bk_prompts, bk_result>>
            [] r.kind = "Err" ->
                 NextIteration(record_failure_bulk(stats))
            [] r.kind = "Prompt" ->
                 /\ bk_pc' = "prompt"
                 /\ bk_prompts' = bk_prompts + 1
                 /\ UNCHANGED <<bk_images, bk_args, index, current, stats,
                                zoom_levels, zoom_level, bk_result>>
    /\ UNCHANGED notBulk

\* level_picker: stdin_line()? gave a line; a valid index returns that
\* level, any other line is refused and the prompt is printed again.
LevelPickerLine ==
    /\ bk_pc = "prompt"
    /\ \E l \in Lines :
          LET idx == parse_level_index(l, Len(zoom_levels))
          IN IF IsSome(idx)
             THEN /\ zoom_level' =
                         ChOk(Unwrap(idx), swap_remove(zoom_levels, Unwrap(idx)))
                  /\ bk_pc' = "reserve"
                  /\ bk_prompts' = bk_prompts
             ELSE /\ bk_prompts < MaxPrompts
                  /\ zoom_level' = zoom_level
                  /\ bk_pc' = "prompt"
                  /\ bk_prompts' = bk_prompts + 1
    /\ UNCHANGED <<bk_images, bk_args, index, current, stats, zoom_levels,
                   bk_result>>
    /\ UNCHANGED notBulk

\* level_picker: stdin_line()? failed, so choose_level returned the error:
\* record_failure and continue.
LevelPickerEof ==
    /\ bk_pc = "prompt"
    /\ NextIteration(record_failure_bulk(stats))
    /\ UNCHANGED notBulk

\* reserve_output_file with `?` in place of the match: the error is returned.
ReserveOutputFilePropagates ==
    /\ bk_pc = "reserve"
    /\ \E ok \in BOOLEAN :
          IF ok
          THEN /\ bk_pc' = "buffer"
               /\ UNCHANGED <<bk_images, bk_args, index, current, stats,
                              zoom_levels, zoom_level, bk_prompts, bk_result>>
          ELSE /\ bk_pc' = "returned"
               /\ bk_result' = "Err"
               /\ UNCHANGED <<bk_images, bk_args, index, current, stats,
                              zoom_levels, zoom_level, bk_prompts>>
    /\ UNCHANGED notBulk

\* get_outname(..) and reserve_output_file(&save_as): reserved, or
\* record_failure and continue.
ReserveOutputFile ==
    /\ bk_pc = "reserve"
    /\ \E ok \in BOOLEAN :
          IF ok
          THEN /\ bk_pc' = "buffer"
               /\ UNCHANGED <<bk_images, bk_args, index, current, stats,
                              zoom_levels, zoom_level, bk_prompts, bk_result>>
          ELSE NextIteration(record_failure_bulk(stats))
    /\ UNCHANGED notBulk

\* create_tile_buffer(save_as.clone(), args.compression).await: a buffer,
\* or record_failure and continue.
CreateTileBuffer ==
    /\ bk_pc = "buffer"
    /\ \E ok \in BOOLEAN :
          IF ok
          THEN /\ bk_pc' = "dezoomify"
               /\ UNCHANGED <<bk_images, bk_args, index, current, stats,
                              zoom_levels, zoom_level, bk_prompts, bk_result>>
          ELSE NextIteration(record_failure_bulk(stats))
    /\ UNCHANGED notBulk

\* match dezoomify_level(args, zoom_level, tile_buffer).await
DezoomifyLevel ==
    /\ bk_pc = "dezoomify"
    /\ \E r \in LevelResults :
          CASE r = "Ok" -> NextIteration(record_success_bulk(stats))
            [] r = "PartialDownload" -> NextIteration(record_partial(stats))
            [] OTHER -> NextIteration(record_failure_bulk(stats))
    /\ UNCHANGED notBulk

\* The loop is over: Ok(()).
BulkReturn ==
    /\ bk_pc = "loop"
    /\ index = Len(bk_images)
    /\ bk_pc' = "returned"
    /\ bk_result' = "Ok"
    /\ UNCHANGED <<bk_images, bk_args, index, current, stats, zoom_levels,
                   zoom_level, bk_prompts>>
    /\ UNCHANGED notBulk

(***************************************************************************)
(* The Google Arts & Culture dezoomer: GAPDezoomer::zoom_levels            *)
(* (google_arts_and_culture/mod.rs 15-96).  A uri is a sequence of         *)
(* fragments, so that contains and ends_with are computed on it.           *)
(***************************************************************************)
GapHost == "artsandculture.google.com"

OtherHost == "lh5.ggpht.com"

\* The uris: a host and a path, and those followed by "=g".
GapBaseUrls == {<<h, q>> : h \in {GapHost, OtherHost}, q \in {"/a", "/b"}}

GapUris == GapBaseUrls \cup {b \o <<"=g">> : b \in GapBaseUrls}

\* str::contains and str::ends_with, on fragments.
contains(uri, frag) == \E k \in 1..Len(uri) : uri[k] = frag

ends_with(uri, frag) == Len(uri) > 0 /\ uri[Len(uri)] = frag

\* Unsigned machine integers of UWidth bits.
UModulus == 2 ^ UWidth

\* a * b and a - b on unsigned integers: the value of the width, and
\* whether the operation overflowed.
umul(a, b) == [value |-> (a * b) % UModulus, overflow |-> a * b >= UModulus]

usub(a, b) == [value |-> (a - b) % UModulus, overflow |-> a < b]

\* tile_info::PageInfo { base_url, token, name }
PageInfos ==
    {[base_url |-> b, token |-> "token", name |-> "name"] :
        b \in {<<OtherHost, "/a">>, <<GapHost, "/a">>}}

\* PageInfo::tile_info_url: the base url followed by "=g".
tile_info_url(info) == info.base_url \o <<"=g">>

\* tile_info::PyramidLevel and tile_info::TileInfo
PyramidLevels ==
    [num_tiles_x : {1, 2}, num_tiles_y : {1}, empty_pels_x : {0},
     empty_pels_y : {0}]
        \cup [num_tiles_x : {1}, num_tiles_y : {1}, empty_pels_x : {3},
              empty_pels_y : {0}]

TileInfos ==
    [tile_width : {2}, tile_height : {2},
     pyramid_level : UNION {[1..n -> PyramidLevels] : n \in 1..MaxPyramid}]

\* The documents a fetch can give: what the landing page parser and the
\* tile info parser make of the bytes (None: the parser fails).
GapDocuments ==
    {[page |-> NoneOpt, tiles |-> NoneOpt]}
        \cup {[page |-> Some(p), tiles |-> NoneOpt] : p \in PageInfos}
        \cup {[page |-> NoneOpt, tiles |-> Some(t)] : t \in TileInfos}

\* dezoomer::PageContents
GapContents ==
    {[kind |-> "Unknown", doc |-> NoneOpt], [kind |-> "Error", doc |-> NoneOpt]}
        \cup {[kind |-> "Success", doc |-> Some(d)] : d \in GapDocuments}

GapInputs == [uri : GapUris, contents : GapContents]

\* Results of zoom_levels.
GapErr(k) == [kind |-> k, uri |-> <<>>, levels |-> <<>>]

GapNeedsData(u) == [kind |-> "NeedsData", uri |-> u, levels |-> <<>>]

GapOk(lvls) == [kind |-> "Ok", uri |-> <<>>, levels |-> lvls]

GapNoResult == GapErr("none")

\* The closure of zoom_levels' map: the GAPZoomLevel of pyramid level
\* `level` at position z, and whether its arithmetic overflowed.
GAPZoomLevel(t, z, level, info) ==
    LET tx == umul(t.tile_width, level.num_tiles_x)
        ty == umul(t.tile_height, level.num_tiles_y)
        width == usub(tx.value, level.empty_pels_x)
        height == usub(ty.value, level.empty_pels_y)
    IN [level |-> [size |-> Vec2d(width.value, height.value),
                   tile_size |-> Vec2d(t.tile_width, t.tile_height),
                   z |-> z,
                   page_info |-> info],
        overflow |-> tx.overflow \/ ty.overflow \/ width.overflow
                        \/ height.overflow]

\* is_valid_uri of zoom_levels.
is_valid_uri(pi, uri) ==
    contains(uri, GapHost) \/ (IsSome(pi) /\ ends_with(uri, "=g"))

\* The levels zoom_levels builds from a tile info, in document order.
GapLevels(t, info) ==
    [k \in 1..Len(t.pyramid_level) |->
        GAPZoomLevel(t, k - 1, t.pyramid_level[k], info).level]

\* Some level's arithmetic overflows.
GapOverflow(t, info) ==
    \E k \in 1..Len(t.pyramid_level) :
        GAPZoomLevel(t, k - 1, t.pyramid_level[k], info).overflow

\* zoom_levels accepting every uri that ends with "=g".
zoom_levels_any_g(pi, data, checks) ==
    IF ~(contains(data.uri, GapHost) \/ ends_with(data.uri, "=g"))
    THEN [result |-> GapErr("WrongDezoomer"), page_info |-> pi]
    ELSE IF data.contents.kind = "Unknown"
    THEN [result |-> GapNeedsData(data.uri), page_info |-> pi]
    ELSE IF data.contents.kind = "Error"
    THEN [result |-> GapErr("DownloadError"), page_info |-> pi]
    ELSE LET doc == Unwrap(data.contents.doc)
         IN IF ~IsSome(pi)
            THEN IF ~IsSome(doc.page)
                 THEN [result |-> GapErr("Other"), page_info |-> pi]
                 ELSE [result |-> GapNeedsData(tile_info_url(Unwrap(doc.page))),
                       page_info |-> doc.page]
            ELSE IF ~IsSome(doc.tiles)
                 THEN [result |-> GapErr("Other"), page_info |-> pi]
                 ELSE [result |->
                           GapOk(GapLevels(Unwrap(doc.tiles), Unwrap(pi))),
                       page_info |-> pi]

\* zoom_levels parsing every landing page it is given, also when a page
\* info is stored already.
zoom_levels_reparsing(pi, data, checks) ==
    IF ~is_valid_uri(pi, data.uri)
    THEN [result |-> GapErr("WrongDezoomer"), page_info |-> pi]
    ELSE IF data.contents.kind = "Unknown"
    THEN [result |-> GapNeedsData(data.uri), page_info |-> pi]
    ELSE IF data.contents.kind = "Error"
    THEN [result |-> GapErr("DownloadError"), page_info |-> pi]
    ELSE LET doc == Unwrap(data.contents.doc)
         IN IF IsSome(doc.page)
            THEN [result |-> GapNeedsData(tile_info_url(Unwrap(doc.page))),
                  page_info |-> doc.page]
            ELSE IF ~IsSome(pi) \/ ~IsSome(doc.tiles)
            THEN [result |-> GapErr("Other"), page_info |-> pi]
            ELSE [result |-> GapOk(GapLevels(Unwrap(doc.tiles), Unwrap(pi))),
                  page_info |-> pi]

\* GAPDezoomer::zoom_levels on an instance whose page_info is pi: the
\* result and the page_info after the call.  self.assert gives
\* WrongDezoomer, with_contents gives NeedsData for contents not fetched
\* yet and DownloadError for a failed fetch, a parse error is wrapped into
\* Other.  An overflow in a level's size panics in a build with overflow
\* checks and wraps in a build without.
zoom_levels_gap(pi, data, checks) ==
    IF ~is_valid_uri(pi, data.uri)
    THEN [result |-> GapErr("WrongDezoomer"), page_info |-> pi]
    ELSE IF data.contents.kind = "Unknown"
    THEN [result |-> GapNeedsData(data.uri), page_info |-> pi]
    ELSE IF data.contents.kind = "Error"
    THEN [result |-> GapErr("DownloadError"), page_info |-> pi]
    ELSE LET doc == Unwrap(data.contents.doc)
         IN IF ~IsSome(pi)
            THEN IF ~IsSome(doc.page)
                 THEN [result |-> GapErr("Other"), page_info |-> pi]
                 ELSE [result |-> GapNeedsData(tile_info_url(Unwrap(doc.page))),
                       page_info |-> doc.page]
            ELSE IF ~IsSome(doc.tiles)
                 THEN [result |-> GapErr("Other"), page_info |-> pi]
                 ELSE IF checks /\ GapOverflow(Unwrap(doc.tiles), Unwrap(pi))
                 THEN [result |-> GapErr("Panic"), page_info |-> pi]
                 ELSE [result |->
                           GapOk(GapLevels(Unwrap(doc.tiles), Unwrap(pi))),
                       page_info |-> pi]

\* No call was made yet.
GapNoInput ==
    [uri |-> <<>>, contents |-> [kind |-> "Unknown", doc |-> NoneOpt]]

\* GAPDezoomer::default()
GapInit ==
    /\ page_info = NoneOpt
    /\ overflow_checks \in BOOLEAN
    /\ gap_calls = 0
    /\ gap_before = NoneOpt
    /\ gap_input = GapNoInput
    /\ gap_result = GapNoResult
    /\ gap_prev = GapNoResult

GapIdle ==
    /\ page_info = NoneOpt
    /\ overflow_checks = FALSE
    /\ gap_calls = -1
    /\ gap_before = NoneOpt
    /\ gap_input = GapNoInput
    /\ gap_result = GapNoResult
    /\ gap_prev = GapNoResult

\* One call dezoomer.zoom_levels(&data).
ZoomLevels ==
    /\ gap_calls >= 0
    /\ gap_calls < MaxGapCalls
    /\ gap_result.kind # "Panic"
    /\ \E data \in GapInputs :
          LET r == zoom_levels_gap(page_info, data, overflow_checks)
          IN /\ gap_input' = data
             /\ gap_result' = r.result
             /\ page_info' = r.page_info
    /\ gap_before' = page_info
    /\ gap_prev' = gap_result
    /\ gap_calls' = gap_calls + 1
    /\ UNCHANGED overflow_checks
    /\ UNCHANGED notGap

(***************************************************************************)
(* The canvas encoder: Canvas::add_tile (encoder/canvas.rs 66-100).        *)
(* vec2d and tile are not among the sources: Vec2d is the unsigned vector  *)
(* of the specification's data model, a Tile its position, decoded image   *)
(* and optional ICC profile.                                               *)
(***************************************************************************)

\* Vec2d::fits_inside, as add_tile uses it: the position is inside the
\* canvas of that size.
fits_inside(v, other) == v.x < other.x /\ v.y < other.y

\* Vec2d::min, Add and Sub, component-wise.
vmin(a, b) ==
    Vec2d(IF a.x <= b.x THEN a.x ELSE b.x, IF a.y <= b.y THEN a.y ELSE b.y)

vadd(a, b) == Vec2d(a.x + b.x, a.y + b.y)

vsub(a, b) == Vec2d(a.x - b.x, a.y - b.y)

\* A subtraction of unsigned vectors that has no unsigned result.
underflows(a, b) == a.x < b.x \/ a.y < b.y

\* The size of the canvas: image.dimensions().
canvas_size == Vec2d(2, 2)

\* The pixel positions of the canvas.
CanvasPositions ==
    {Vec2d(px, py) : px \in 0..(canvas_size.x - 1),
                     py \in 0..(canvas_size.y - 1)}

\* An Rgba pixel: a colour and an alpha; the pixel of a decoded image
\* depends on the image and on the offset.
Rgba(c, a) == [colour |-> c, alpha |-> a]

\* ImageBuffer::new: every pixel zero.
BlankImage(kind) ==
    [q \in CanvasPositions |->
        IF kind = "Rgba" THEN Rgba(<<0, 0, 0>>, 0) ELSE Rgba(<<0, 0, 0>>, 255)]

\* FromRgba::from_rgba: Rgba keeps the pixel, Rgb drops the alpha channel
\* (an Rgb pixel is shown with full alpha).
from_rgba(kind, rgba) ==
    IF kind = "Rgba" THEN rgba ELSE Rgba(rgba.colour, 255)

\* The tiles: on the canvas, on its edge, and outside.
TilePositions ==
    {Vec2d(0, 0), Vec2d(1, 1), Vec2d(2, 2), Vec2d(3, 0), Vec2d(0, 3)}

TileSizes == {Vec2d(1, 1), Vec2d(2, 2)}

TileImages ==
    {[shade |-> 1, icc_profile |-> NoneOpt],
     [shade |-> 1, icc_profile |-> Some("profileA")],
     [shade |-> 2, icc_profile |-> Some("profileB")]}

Tiles ==
    {[position |-> q, size |-> sz, shade |-> t.shade,
      icc_profile |-> t.icc_profile] :
        q \in TilePositions, sz \in TileSizes, t \in TileImages}

\* tile.image.get_pixel(x, y)
get_pixel(tile, px, py) == Rgba(<<tile.shade, px, py>>, tile.shade)

\* Tile::bottom_right: position + size.
bottom_right(tile) == vadd(tile.position, tile.size)

\* The ICC profile kept when the tile's profile always replaces it.
capture_icc_last(profile, tile) ==
    IF IsSome(tile.icc_profile) THEN tile.icc_profile ELSE profile

\* add_tile, lines 73-79: the profile of the first tile that has one.
capture_icc(profile, tile) ==
    IF ~IsSome(profile) /\ IsSome(tile.icc_profile)
    THEN tile.icc_profile
    ELSE profile

\* The positions put_pixel is called on: min_pos + (0..size.x, 0..size.y).
BlitRegion(min_pos, size) ==
    {q \in CanvasPositions :
        /\ min_pos.x <= q.x /\ q.x < min_pos.x + size.x
        /\ min_pos.y <= q.y /\ q.y < min_pos.y + size.y}

\* The copy loops reading the tile's pixel at the transposed offset.
blit_transposed(img, kind, tile, min_pos, size) ==
    [q \in CanvasPositions |->
        IF q \in BlitRegion(min_pos, size)
        THEN from_rgba(kind,
                       get_pixel(tile, q.y - min_pos.y, q.x - min_pos.x))
        ELSE img[q]]

\* The copy loops clearing every pixel they do not write.
blit_clearing(img, kind, tile, min_pos, size) ==
    [q \in CanvasPositions |->
        IF q \in BlitRegion(min_pos, size)
        THEN from_rgba(kind,
                       get_pixel(tile, q.x - min_pos.x, q.y - min_pos.y))
        ELSE BlankImage(kind)[q]]

\* add_tile, lines 91-98: the image after the copy loops.
blit(img, kind, tile, min_pos, size) ==
    [q \in CanvasPositions |->
        IF q \in BlitRegion(min_pos, size)
        THEN from_rgba(kind,
                       get_pixel(tile, q.x - min_pos.x, q.y - min_pos.y))
        ELSE img[q]]

\* Results of add_tile.
CanvasOk == "Ok"

InvalidData == "InvalidData: tile too large for image"

CanvasPanic == "panic: subtraction overflow"

\* add_tile without the check of the tile's position.
add_tile_unchecked(img, profile, kind, tile) ==
    LET min_pos == tile.position
        max_pos == vmin(bottom_right(tile), canvas_size)
    IN IF underflows(max_pos, min_pos)
       THEN [image |-> img, icc_profile |-> capture_icc(profile, tile),
             result |-> CanvasPanic]
       ELSE [image |-> blit(img, kind, tile, min_pos, vsub(max_pos, min_pos)),
             icc_profile |-> capture_icc(profile, tile),
             result |-> CanvasOk]

\* Canvas::add_tile on a canvas with image img and ICC profile `profile`:
\* the image and the profile after the call, and what the call returned.
add_tile(img, profile, kind, tile) ==
    LET min_pos == tile.position
        max_pos == vmin(bottom_right(tile), canvas_size)
    IN IF ~fits_inside(min_pos, canvas_size)
       THEN [image |-> img, icc_profile |-> capture_icc(profile, tile),
             result |-> InvalidData]
       ELSE IF underflows(max_pos, min_pos)
       THEN [image |-> img, icc_profile |-> capture_icc(profile, tile),
             result |-> CanvasPanic]
       ELSE [image |-> blit(img, kind, tile, min_pos, vsub(max_pos, min_pos)),
             icc_profile |-> capture_icc(profile, tile),
             result |-> CanvasOk]

\* Canvas::new_generic / Canvas::new_jpeg
CanvasInit ==
    /\ pix \in {"Rgba", "Rgb"}
    /\ image = BlankImage(pix)
    /\ icc_profile = NoneOpt
    /\ cv_tiles = <<>>
    /\ cv_before = image
    /\ cv_icc_before = NoneOpt
    /\ cv_result = None

CanvasIdle ==
    /\ pix = "idle"
    /\ image = <<>>
    /\ icc_profile = NoneOpt
    /\ cv_tiles = <<>>
    /\ cv_before = <<>>
    /\ cv_icc_before = NoneOpt
    /\ cv_result = None

\* One call canvas.add_tile(tile).
AddTile ==
    /\ pix # "idle"
    /\ Len(cv_tiles) < MaxCanvasTiles
    /\ cv_result # CanvasPanic
    /\ \E tile \in Tiles :
          LET r == add_tile(image, icc_profile, pix, tile)
          IN /\ image' = r.image
             /\ icc_profile' = r.icc_profile
             /\ cv_result' = r.result
             /\ cv_tiles' = Append(cv_tiles, tile)
    /\ cv_before' = image
    /\ cv_icc_before' = icc_profile
    /\ UNCHANGED pix
    /\ UNCHANGED notCanvas

(***************************************************************************)
(* The streaming PNG encoder: PngEncoder (encoder/png_encoder.rs 12-146)   *)
(* and the pixel streamer it feeds.  encoder::pixel_streamer is not among  *)
(* the sources: the streamer is that of the specification, which tracks    *)
(* the next unwritten row y_cursor, buffers the tiles whose rows are not   *)
(* complete yet, and writes a row once every tile that intersects it has   *)
(* been received.                                                          *)
(***************************************************************************)

\* PngEncoder.size and the tiles of the level: one tile per pixel.
png_size == Vec2d(2, 2)

PngGrid ==
    {Vec2d(px, py) : px \in 0..(png_size.x - 1), py \in 0..(png_size.y - 1)}

\* The metadata a tile can carry.
TileMetadata ==
    {[icc_profile |-> NoneOpt, exif_metadata |-> NoneOpt],
     [icc_profile |-> Some("profileA"), exif_metadata |-> NoneOpt],
     [icc_profile |-> NoneOpt, exif_metadata |-> Some("exifA")],
     [icc_profile |-> Some("profileB"), exif_metadata |-> Some("exifB")]}

PngTiles ==
    {[position |-> q, size |-> Vec2d(1, 1), icc_profile |-> d.icc_profile,
      exif_metadata |-> d.exif_metadata] : q \in PngGrid, d \in TileMetadata}

\* The pixel of a tile, and the pixel of a place no tile was received for.
TilePixel(tile) == 1 + tile.position.x + png_size.x * tile.position.y

BlankPixel == 0

\* The tile covers the place (px, py).
Covers(tile, px, py) ==
    /\ tile.position.x <= px /\ px < tile.position.x + tile.size.x
    /\ tile.position.y <= py /\ py < tile.position.y + tile.size.y

\* PixelStreamer::new(writer, size)
PixelStreamerNew == [y_cursor |-> 0, received |-> {}]

\* Every tile of the level that intersects row py has been received.
RowComplete(st, py) ==
    \A q \in PngGrid :
        q.y = py => \E tile \in st.received : tile.position = q

\* The scanline py: the pixels of the received tiles, blank elsewhere.
Scanline(st, py) ==
    [y |-> py,
     pixels |-> [px \in 0..(png_size.x - 1) |->
                    IF \E tile \in st.received : Covers(tile, px, py)
                    THEN TilePixel(CHOOSE tile \in st.received :
                                       Covers(tile, px, py))
                    ELSE BlankPixel]]

\* The streamer writes the rows from y_cursor on: the complete ones, or
\* every remaining one when flushing.
RECURSIVE advance(_, _, _)
advance(st, out, flush) ==
    IF st.y_cursor < png_size.y /\ (flush \/ RowComplete(st, st.y_cursor))
    THEN advance([st EXCEPT !.y_cursor = @ + 1],
                 Append(out, Scanline(st, st.y_cursor)), flush)
    ELSE [streamer |-> st, written |-> out]

\* PixelStreamer::add_tile and PixelStreamer::finalize
streamer_add_tile(st, out, tile) ==
    advance([st EXCEPT !.received = @ \cup {tile}], out, FALSE)

streamer_finalize(st, out) == advance(st, out, TRUE)

\* The encoder and its file as one value.
PngRecord(ft, f, ps, h, hw, w, st) ==
    [first_tile |-> ft, file |-> f, pixel_streamer |-> ps, header |-> h,
     header_writes |-> hw, written |-> w, streamed |-> st]

\* Results of add_tile and finalize.
PngOk == "Ok"

PngIoError == "Io"

PngPanic == "panic"

\* write_header_with_metadata never handing the metadata to the header.
write_header_without_metadata(e, icc, exif, io_ok) ==
    IF ~e.file THEN [e |-> e, result |-> PngPanic]
    ELSE IF ~io_ok THEN [e |-> [e EXCEPT !.file = FALSE], result |-> PngIoError]
    ELSE [e |-> [e EXCEPT !.file = FALSE,
                          !.header = Some([icc_profile |-> NoneOpt,
                                           exif_metadata |-> NoneOpt]),
                          !.header_writes = @ + 1,
                          !.pixel_streamer = Some(PixelStreamerNew)],
          result |-> PngOk]

\* write_header_with_metadata: takes the file (a panic when it was taken
\* before), writes the header with the ICC profile and the EXIF data it is
\* given, and creates the pixel streamer; an I/O error of the PNG writer
\* is returned after the file was taken.
write_header_with_metadata(e, icc, exif, io_ok) ==
    IF ~e.file THEN [e |-> e, result |-> PngPanic]
    ELSE IF ~io_ok THEN [e |-> [e EXCEPT !.file = FALSE], result |-> PngIoError]
    ELSE [e |-> [e EXCEPT !.file = FALSE,
                          !.header = Some([icc_profile |-> icc,
                                           exif_metadata |-> exif]),
                          !.header_writes = @ + 1,
                          !.pixel_streamer = Some(PixelStreamerNew)],
          result |-> PngOk]

\* PngEncoder::add_tile
png_add_tile(e, tile, io_ok) ==
    LET h == IF e.first_tile
             THEN write_header_with_metadata(e, tile.icc_profile,
                                             tile.exif_metadata, io_ok)
             ELSE [e |-> e, result |-> PngOk]
        e1 == IF e.first_tile THEN [h.e EXCEPT !.first_tile = FALSE] ELSE h.e
    IN IF h.result # PngOk THEN h
       ELSE IF ~IsSome(e1.pixel_streamer) THEN [e |-> e1, result |-> PngPanic]
       ELSE LET r == streamer_add_tile(Unwrap(e1.pixel_streamer), e1.written,
                                       tile)
            IN [e |-> [e1 EXCEPT !.pixel_streamer = Some(r.streamer),
                                 !.written = r.written,
                                 !.streamed = Append(@, tile)],
                result |-> PngOk]

\* finalize taking the pixel streamer without flushing it.
png_finalize_no_flush(e, io_ok) ==
    LET h == IF e.first_tile
             THEN write_header_with_metadata(e, NoneOpt, NoneOpt, io_ok)
             ELSE [e |-> e, result |-> PngOk]
    IN IF h.result # PngOk THEN h
       ELSE IF ~IsSome(h.e.pixel_streamer)
       THEN [e |-> h.e, result |-> PngPanic]
       ELSE [e |-> [h.e EXCEPT !.pixel_streamer = NoneOpt], result |-> PngOk]

\* PngEncoder::finalize
png_finalize(e, io_ok) ==
    LET h == IF e.first_tile
             THEN write_header_with_metadata(e, NoneOpt, NoneOpt, io_ok)
             ELSE [e |-> e, result |-> PngOk]
    IN IF h.result # PngOk THEN h
       ELSE IF ~IsSome(h.e.pixel_streamer)
       THEN [e |-> h.e, result |-> PngPanic]
       ELSE LET r == streamer_finalize(Unwrap(h.e.pixel_streamer),
                                       h.e.written)
            IN [e |-> [h.e EXCEPT !.pixel_streamer = NoneOpt,
                                  !.written = r.written],
                result |-> PngOk]

\* PngEncoder::new
PngInit ==
    /\ first_tile = TRUE
    /\ file = TRUE
    /\ pixel_streamer = NoneOpt
    /\ header = NoneOpt
    /\ header_writes = 0
    /\ written = <<>>
    /\ png_tiles = <<>>
    /\ streamed = <<>>
    /\ png_result = None
    /\ png_pc = "open"

PngIdle ==
    /\ first_tile = TRUE
    /\ file = FALSE
    /\ pixel_streamer = NoneOpt
    /\ header = NoneOpt
    /\ header_writes = 0
    /\ written = <<>>
    /\ png_tiles = <<>>
    /\ streamed = <<>>
    /\ png_result = None
    /\ png_pc = "idle"

\* The encoder takes the fields of e.
PngAssign(e) ==
    /\ first_tile' = e.first_tile
    /\ file' = e.file
    /\ pixel_streamer' = e.pixel_streamer
    /\ header' = e.header
    /\ header_writes' = e.header_writes
    /\ written' = e.written
    /\ streamed' = e.streamed

\* One call encoder.add_tile(tile), for a tile of the level that was not
\* delivered before; the header write succeeds or fails.
PngAddTile ==
    /\ png_pc = "open"
    /\ png_result # PngPanic
    /\ \E tile \in PngTiles, io_ok \in BOOLEAN :
          /\ \A k \in 1..Len(png_tiles) : png_tiles[k].position # tile.position
          /\ LET r == png_add_tile(PngRecord(first_tile, file, pixel_streamer,
                                             header, header_writes, written,
                                             streamed), tile, io_ok)
             IN /\ PngAssign(r.e)
                /\ png_result' = r.result
          /\ png_tiles' = Append(png_tiles, tile)
    /\ UNCHANGED png_pc
    /\ UNCHANGED notPng

\* The call encoder.finalize().
PngFinalize ==
    /\ png_pc = "open"
    /\ png_result # PngPanic
    /\ \E io_ok \in BOOLEAN :
          LET r == png_finalize(PngRecord(first_tile, file, pixel_streamer,
                                          header, header_writes, written,
                                          streamed), io_ok)
          IN /\ PngAssign(r.e)
             /\ png_result' = r.result
    /\ png_pc' = "finalized"
    /\ UNCHANGED png_tiles
    /\ UNCHANGED notPng

(***************************************************************************)
(* Dezoomer::dezoomer_result of the IIIF and bulk_text dezoomers, called   *)
(* on two fresh instances with one input (iiif/mod.rs 94-188,              *)
(* iiif/manifest_types.rs, bulk_text/mod.rs 32-60).  A document is what    *)
(* the parsers make of the bytes; a title "a - b" is the sequence of its   *)
(* parts <<a, b>>.                                                         *)
(***************************************************************************)
\* IiifLabel: a string, a map from language to labels, or none.  The map
\* is a set of entries <<language, labels>> with one entry per language.
LabelNone == [kind |-> "None", s |-> "", entries |-> {}]

LabelString(t) == [kind |-> "String", s |-> t, entries |-> {}]

LabelMap(es) == [kind |-> "Map", s |-> "", entries |-> es]

\* std::collections::HashMap::values: the entries in the order of the
\* map's hasher, which is seeded afresh for every map that is built.
IterationOrders(es) ==
    {o \in [1..Cardinality(es) -> es] :
        \A a, b \in 1..Cardinality(es) : a # b => o[a] # o[b]}

\* labels.first().filter(|s| !s.is_empty())
first_non_empty(labels) ==
    IF Len(labels) > 0 /\ labels[1] # "" THEN Some(labels[1]) ELSE NoneOpt

\* Iterator::find_map over the values of the map in iteration order.
find_map_first_non_empty(order) ==
    LET hits == {k \in 1..Len(order) : IsSome(first_non_empty(order[k][2]))}
    IN IF hits = {} THEN NoneOpt
       ELSE first_non_empty(
                order[CHOOSE k \in hits : \A j \in hits : k <= j][2])

\* IiifLabel::get_english_or_first, for a map iterated in the given order.
get_english_or_first(label, order) ==
    IF label.kind = "String"
    THEN IF label.s # "" THEN Some(label.s) ELSE NoneOpt
    ELSE IF label.kind = "None" THEN NoneOpt
    ELSE LET en == {e \in label.entries : e[1] = "en"}
         IN IF en # {} /\ IsSome(first_non_empty((CHOOSE e \in en : TRUE)[2]))
            THEN first_non_empty((CHOOSE e \in en : TRUE)[2])
            ELSE find_map_first_non_empty(order)

\* str::to_lowercase on the metadata labels of the model.
to_lowercase(s) == IF s = "Title" THEN "title" ELSE s

\* MetadataEntry::get_title
get_title(entry, ho) ==
    LET l == get_english_or_first(entry.label, ho.label)
    IN IF IsSome(l) /\ to_lowercase(Unwrap(l)) = "title"
       THEN get_english_or_first(entry.value, ho.value)
       ELSE NoneOpt

\* Manifest::get_metadata_title
get_metadata_title(m, h) ==
    IF ~IsSome(m.metadata) THEN NoneOpt
    ELSE LET md == Unwrap(m.metadata)
             hits == {k \in 1..Len(md) :
                         IsSome(get_title(md[k], h.metadata[k]))}
         IN IF hits = {} THEN NoneOpt
            ELSE LET k == CHOOSE a \in hits : \A b \in hits : a <= b
                 IN get_title(md[k], h.metadata[k])

\* Concatenation of a sequence of sequences.
RECURSIVE concat(_)
concat(seqs) ==
    IF Len(seqs) = 0 THEN <<>> ELSE Head(seqs) \o concat(Tail(seqs))

\* Iterator::find: the position of the first element that passes the test,
\* 0 for none.
find(seq, Test(_)) ==
    LET hits == {k \in 1..Len(seq) : Test(seq[k])}
    IN IF hits = {} THEN 0 ELSE CHOOSE k \in hits : \A j \in hits : k <= j

\* A url or an id is the sequence of its pieces: the origin "http://h" if
\* it is absolute, then path segments with their leading slash.
is_absolute(id) == Len(id) > 0 /\ id[1] = "http://h"

\* network::resolve_relative: an absolute id as it is, a relative one in
\* the directory of the base.
resolve_relative(base, id) ==
    IF is_absolute(id) THEN id
    ELSE SubSeq(base, 1, Len(base) - 1) \o id

\* The service id made to point to info.json: unchanged if it ends with
\* "/info.json", else "info.json" after a slash.
with_info_json(resolved_uri) ==
    IF ends_with(resolved_uri, "/info.json") THEN resolved_uri
    ELSE IF ends_with(resolved_uri, "/")
    THEN SubSeq(resolved_uri, 1, Len(resolved_uri) - 1) \o <<"/info.json">>
    ELSE resolved_uri \o <<"/info.json">>

\* service_type.contains("ImageService")
is_image_service(service_type) ==
    service_type \in {"ImageService1", "ImageService2", "ImageService3"}

\* The variant that takes the first image service with an id, whatever
\* its version.
chosen_first_service_id(services) ==
    LET IsAnyService(sv) == is_image_service(sv.service_type) /\ sv.id # <<>>
        any_service == find(services, IsAnyService)
    IN IF any_service # 0 THEN Some(services[any_service].id) ELSE NoneOpt

\* The service of the body that extract_image_infos chooses: ImageService3
\* before ImageService2 before any image service with an id.
chosen_original_service_id(services) ==
    LET IsService3(sv) == sv.service_type = "ImageService3"
        IsService2(sv) == sv.service_type = "ImageService2"
        IsAnyService(sv) == is_image_service(sv.service_type) /\ sv.id # <<>>
        service3 == find(services, IsService3)
        service2 == find(services, IsService2)
        any_service == find(services, IsAnyService)
    IN IF service3 # 0
       THEN IF services[service3].id # <<>> THEN Some(services[service3].id)
            ELSE NoneOpt
       ELSE IF service2 # 0
       THEN IF services[service2].id # <<>> THEN Some(services[service2].id)
            ELSE NoneOpt
       ELSE IF any_service # 0 THEN Some(services[any_service].id)
       ELSE NoneOpt

\* final_image_uri of extract_image_infos for one image body.
final_image_uri(image_body, manifest_url) ==
    LET chosen == chosen_original_service_id(image_body.service)
    IN IF IsSome(chosen)
       THEN Some(with_info_json(resolve_relative(manifest_url,
                                                 Unwrap(chosen))))
       ELSE IF image_body.id # <<>> /\ image_body.image_type = "Image"
       THEN Some(resolve_relative(manifest_url, image_body.id))
       ELSE NoneOpt

\* The body of the canvas loop of extract_image_infos: the images of the
\* annotations of the pages of canvas k, in their order.
canvas_infos(m, manifest_url, h, manifest_label, metadata_title, k) ==
    LET canvas == m.items[k]
        canvas_label == get_english_or_first(canvas.label, h.items[k])
        annotations == concat(canvas.items)
        Info(annotation) ==
            IF ~IsSome(annotation.body) THEN <<>>
            ELSE LET uri == final_image_uri(Unwrap(annotation.body),
                                            manifest_url)
                 IN IF ~IsSome(uri) THEN <<>>
                    ELSE <<[image_uri |-> Unwrap(uri),
                            manifest_label |-> manifest_label,
                            metadata_title |-> metadata_title,
                            canvas_label |-> canvas_label,
                            canvas_index |-> k - 1]>>
    IN concat([a \in 1..Len(annotations) |-> Info(annotations[a])])

\* Manifest::extract_image_infos
extract_image_infos(m, manifest_url, h) ==
    concat([k \in 1..Len(m.items) |->
               canvas_infos(m, manifest_url, h,
                            get_english_or_first(m.label, h.label),
                            get_metadata_title(m, h), k)])

\* [&str]::join: the parts with the separator between them.  A string is
\* the sequence of its pieces, the empty string a sequence of empty pieces.
RECURSIVE join(_, _)
join(parts, sep) ==
    IF Len(parts) = 0 THEN <<>>
    ELSE IF Len(parts) = 1 THEN parts
    ELSE <<parts[1], sep>> \o join(Tail(parts), sep)

\* determine_title without the test parts.contains.
determine_title_repeating(image_info) ==
    LET p3 == image_info.manifest_label \o image_info.metadata_title
                  \o image_info.canvas_label
    IN IF p3 = <<>> THEN NoneOpt ELSE Some(join(p3, " - "))

\* determine_title
determine_title(image_info) ==
    LET p1 == image_info.manifest_label
        p2 == IF IsSome(image_info.metadata_title)
                 /\ ~contains(p1, Unwrap(image_info.metadata_title))
              THEN p1 \o image_info.metadata_title
              ELSE p1
        p3 == IF IsSome(image_info.canvas_label)
                 /\ ~contains(p2, Unwrap(image_info.canvas_label))
              THEN p2 \o image_info.canvas_label
              ELSE p2
    IN IF p3 = <<>> THEN NoneOpt ELSE Some(join(p3, " - "))

\* What comes with a result: the name of the error, the line number and
\* the input of BulkTextError::InvalidUrlOrPath, the uri of NeedsData.
ResultData(e, n, input) == [error |-> e, line_number |-> n, input |-> input]

PurOk(items) ==
    [kind |-> "Ok", items |-> items, data |-> ResultData("", 0, <<>>)]

PurErr(e) ==
    [kind |-> "Err", items |-> <<>>, data |-> ResultData(e, 0, <<>>)]

PurInvalidUrlOrPath(n, input) ==
    [kind |-> "Err", items |-> <<>>,
     data |-> ResultData("InvalidUrlOrPath", n, input)]

PurNeedsData(u) ==
    [kind |-> "NeedsData", items |-> <<>>, data |-> ResultData("", 0, u)]

PurNoResult ==
    [kind |-> "NoResult", items |-> <<>>, data |-> ResultData("", 0, <<>>)]

\* dezoomer_result_from_single_image(IIIFZoomableImage::new(levels, None))
from_single_image(lvls) ==
    PurOk(<<[kind |-> "Image", url |-> lvls, title |-> NoneOpt]>>)

\* image_infos mapped to ZoomableImageUrl, as dezoomer_result_from_urls
from_image_infos(infos) ==
    PurOk([k \in 1..Len(infos) |->
              [kind |-> "ImageUrl", url |-> infos[k].image_uri,
               title |-> determine_title(infos[k])]])

\* zoom_levels(uri, contents) of iiif/mod.rs: the levels of the info.json,
\* or the JSON error.
iiif_zoom_levels(doc) ==
    IF IsSome(doc.info) THEN from_single_image(Unwrap(doc.info))
    ELSE PurErr("JsonError")

\* The variant of IIIF::dezoomer_result whose fallback tries info.json
\* first whatever the uri.
iiif_dezoomer_result_info_first(data, h) ==
    IF ~IsSome(data.contents) THEN PurNeedsData(data.uri)
    ELSE
    LET doc == Unwrap(data.contents)
        image_infos == extract_image_infos(Unwrap(doc.manifest), data.uri, h)
        heuristic ==
            IF IsSome(doc.info)
            THEN from_single_image(Unwrap(doc.info))
            ELSE IF IsSome(doc.manifest) /\ image_infos # <<>>
            THEN from_image_infos(image_infos)
            ELSE iiif_zoom_levels(doc)
    IN IF doc.type \in {Some("ImageService2"), Some("ImageService3"),
                        Some("iiif:ImageProfile")}
       THEN iiif_zoom_levels(doc)
       ELSE IF doc.type = Some("Manifest")
       THEN IF ~IsSome(doc.manifest) THEN PurErr("JsonError")
            ELSE IF image_infos # <<>> THEN from_image_infos(image_infos)
            ELSE heuristic
       ELSE heuristic

\* IIIF::dezoomer_result; h holds the iteration order of every label map
\* that parsing the manifest builds.
iiif_dezoomer_result(data, h) ==
    IF ~IsSome(data.contents) THEN PurNeedsData(data.uri)
    ELSE
    LET doc == Unwrap(data.contents)
        image_infos == extract_image_infos(Unwrap(doc.manifest), data.uri, h)
        heuristic ==
            IF ends_with(data.uri, "/info.json") /\ IsSome(doc.info)
            THEN from_single_image(Unwrap(doc.info))
            ELSE IF IsSome(doc.manifest) /\ image_infos # <<>>
            THEN from_image_infos(image_infos)
            ELSE iiif_zoom_levels(doc)
    IN IF doc.type \in {Some("ImageService2"), Some("ImageService3"),
                        Some("iiif:ImageProfile")}
       THEN iiif_zoom_levels(doc)
       ELSE IF doc.type = Some("Manifest")
       THEN IF ~IsSome(doc.manifest) THEN PurErr("JsonError")
            ELSE IF image_infos # <<>> THEN from_image_infos(image_infos)
            ELSE heuristic
       ELSE heuristic

\* The file is a bulk URL list: the test on the uri of
\* BulkTextDezoomer::dezoomer_result.
is_bulk_file(uri) ==
    /\ \/ ends_with(uri, ".txt")
       \/ ends_with(uri, ".urls")
       \/ contains(uri, "bulk")
       \/ contains(uri, "list")
    /\ ~contains(uri, "{{")
    /\ ~contains(uri, "}}")

\* A line of text is the sequence of its words, a word the sequence of its
\* pieces; a whitespace character is the word Space.  A string such as a
\* url or a title is a sequence of pieces.
Space == <<" ">>

is_whitespace(w) == w = Space

\* str::trim_start and str::trim_end on a line.
RECURSIVE trim_start(_)
trim_start(l) ==
    IF Len(l) > 0 /\ is_whitespace(l[1]) THEN trim_start(Tail(l)) ELSE l

RECURSIVE trim_end(_)
trim_end(l) ==
    IF Len(l) > 0 /\ is_whitespace(l[Len(l)])
    THEN trim_end(SubSeq(l, 1, Len(l) - 1))
    ELSE l

\* str::trim
trim(l) == trim_end(trim_start(l))

\* url::Url::parse: a string with an origin parses.
url_parse(input) ==
    IF Len(input) > 0 /\ input[1] = "http://h" THEN Some(input) ELSE NoneOpt

\* str::split on the piece sep.
RECURSIVE split(_, _)
split(str, sep) ==
    LET IsSep(piece) == piece = sep
        p == find(str, IsSep)
    IN IF p = 0 THEN <<str>>
       ELSE <<SubSeq(str, 1, p - 1)>>
                \o split(SubSeq(str, p + 1, Len(str)), sep)

\* Url::path_segments: the path without its leading slash, split at the
\* slashes; the path of a url without one is "/".
path_segments(parsed_url) ==
    IF Len(parsed_url) = 1 THEN <<<<>>>>
    ELSE split(SubSeq(parsed_url, 3, Len(parsed_url)), "/")

\* str::rfind('.'): the position of the last piece that starts with a dot,
\* 0 for none.
rfind_dot(segment) ==
    LET dots == {k \in 1..Len(segment) : segment[k] \in {".jpg", ".b"}}
    IN IF dots = {} THEN 0 ELSE CHOOSE k \in dots : \A j \in dots : j <= k

\* The variant of validate_url_or_path that accepts every input.
validate_anything(input, paths) == TRUE

\* validate_url_or_path: a URL that parses, a path that exists, or a URL
\* template.
validate_url_or_path(input, paths) ==
    \/ IsSome(url_parse(input))
    \/ input \in paths
    \/ contains(input, "{{X}}")
    \/ contains(input, "{{Y}}")

\* The variant of extract_title_from_url without the fallback to the line
\* number.
extract_title_or_none(url, line_number) ==
    LET segments == path_segments(Unwrap(url_parse(url)))
        IsNonEmpty(sg) == sg # <<>>
        filled == {k \in 1..Len(segments) : IsNonEmpty(segments[k])}
        last_segment == segments[CHOOSE k \in filled : \A j \in filled : j <= k]
        dot_pos == rfind_dot(last_segment)
        title == IF dot_pos # 0 THEN SubSeq(last_segment, 1, dot_pos - 1)
                 ELSE last_segment
    IN IF IsSome(url_parse(url)) /\ filled # {} /\ title # <<>>
       THEN Some(title)
       ELSE NoneOpt

\* extract_title_from_url: the last path segment of a URL without its
\* extension, else "URL_{line_number}".
extract_title_from_url(url, line_number) ==
    LET segments == path_segments(Unwrap(url_parse(url)))
        IsNonEmpty(sg) == sg # <<>>
        filled == {k \in 1..Len(segments) : IsNonEmpty(segments[k])}
        last_segment == segments[CHOOSE k \in filled : \A j \in filled : j <= k]
        dot_pos == rfind_dot(last_segment)
        title == IF dot_pos # 0 THEN SubSeq(last_segment, 1, dot_pos - 1)
                 ELSE last_segment
    IN IF IsSome(url_parse(url)) /\ filled # {} /\ title # <<>>
       THEN Some(title)
       ELSE Some(<<"URL_", ToString(line_number)>>)

\* The loop of parse_text_urls from line k on.
RECURSIVE parse_from(_, _, _, _)
parse_from(lines, paths, k, urls) ==
    IF k > Len(lines) THEN PurOk(urls)
    ELSE LET trimmed == trim(lines[k])
             p == find(trimmed, is_whitespace)
             url_part == IF p = 0 THEN concat(trimmed)
                         ELSE concat(SubSeq(trimmed, 1, p - 1))
             rest == IF p = 0 THEN <<>>
                     ELSE concat(SubSeq(trimmed, p + 1, Len(trimmed)))
         IN IF trimmed = <<>> \/ trimmed[1][1] = "#"
            THEN parse_from(lines, paths, k + 1, urls)
            ELSE IF ~validate_url_or_path(url_part, paths)
            THEN PurInvalidUrlOrPath(k, url_part)
            ELSE parse_from(lines, paths, k + 1,
                     Append(urls,
                         [kind |-> "ImageUrl", url |-> url_part,
                          title |-> IF rest # <<>> THEN Some(rest)
                                    ELSE extract_title_from_url(url_part,
                                                                k)]))

\* parse_text_urls
parse_text_urls(lines, paths) == parse_from(lines, paths, 1, <<>>)

\* BulkTextDezoomer::dezoomer_result
bulk_text_dezoomer_result(data, paths) ==
    IF ~is_bulk_file(data.uri) THEN PurErr("WrongDezoomer")
    ELSE IF ~IsSome(data.contents) THEN PurNeedsData(data.uri)
    ELSE IF ~Unwrap(data.contents).utf8 THEN PurErr("DownloadError")
    ELSE LET urls == parse_text_urls(Unwrap(data.contents).lines, paths)
         IN IF urls.kind = "Ok" /\ urls.items = <<>>
            THEN PurErr("Other")
            ELSE urls

\* The labels of the manifests of the model.
Multilingual == LabelMap({<<"fr", <<"Monde">>>>, <<"de", <<"Welt">>>>})

Labels ==
    {LabelNone, LabelString(""), LabelString("Atlas"), Multilingual,
     LabelMap({<<"en", <<"World">>>>, <<"fr", <<"Monde">>>>}),
     LabelMap({<<"en", <<"">>>>, <<"fr", <<"Monde">>>>})}

CanvasLabels == {LabelString("Page"), Multilingual}

MetadataEntries ==
    [label : {LabelString("Title")},
     value : {LabelString("Atlas"), Multilingual}]
        \cup [label : {LabelString("Date")}, value : {LabelString("Atlas")}]

\* A canvas without annotations, and one with one painting annotation of
\* an image that has one ImageService3 service.
EmptyCanvas(label) == [label |-> label, items |-> <<>>]

PaintingCanvas(label) ==
    [label |-> label,
     items |-> <<<<[motivation |-> Some("painting"),
                    body |-> Some([id |-> <<>>, image_type |-> "Image",
                                   service |->
                                       <<[id |-> <<"http://h", "/s">>,
                                          service_type |->
                                              "ImageService3"]>>])]>>>>]

Canvases ==
    {EmptyCanvas(Multilingual)} \cup {PaintingCanvas(l) : l \in CanvasLabels}

Manifests ==
    [label : Labels,
     metadata : {NoneOpt} \cup {Some(<<e>>) : e \in MetadataEntries},
     items : UNION {[1..n -> Canvases] : n \in 0..MaxCanvases}]

\* What the JSON parsers make of the bytes: the "type" field, the levels
\* of the info.json, the manifest.  Any JSON object parses as a manifest.
IiifDocuments ==
    {[type |-> NoneOpt, info |-> NoneOpt, manifest |-> NoneOpt],
     [type |-> Some("Manifest"), info |-> NoneOpt, manifest |-> NoneOpt]}
    \cup [type : {Some("Manifest"), Some("Collection")},
          info : {NoneOpt, Some("levels")},
          manifest : {Some(m) : m \in Manifests}]
    \cup [type : {NoneOpt, Some("ImageService2")},
          info : {NoneOpt, Some("levels")},
          manifest : {Some([label |-> LabelNone, metadata |-> NoneOpt,
                            items |-> <<>>])}]

\* The words of the lines of the model: a url with a file name, a path, a
\* url template, neither of them, a word of a title.
UrlWord == <<"http://h", "/", "a", ".jpg">>

PathWord == <<"dir", "/", "file">>

TemplateWord == <<"t", "{{X}}">>

OtherWord == <<"???">>

TitleWord == <<"My">>

TextLines ==
    {<<>>, <<UrlWord>>, <<UrlWord, Space, TitleWord>>, <<PathWord>>,
     <<TemplateWord>>, <<OtherWord>>}

TextDocuments ==
    {[utf8 |-> FALSE, lines |-> <<>>]}
    \cup {[utf8 |-> TRUE, lines |-> ls] :
             ls \in UNION {[1..n -> TextLines] : n \in 0..MaxTextLines}}

\* The uris: of a manifest, of an info.json, of a bulk file.
PurUris(d) ==
    {<<"http://h", "/m">>}
        \cup IF d = "iiif" THEN {<<"http://h", "/i", "/info.json">>}
             ELSE {<<"http://h", "/", "list", ".txt">>}

PurInputs(d) ==
    [uri : PurUris(d),
     contents : {NoneOpt} \cup
                {Some(doc) : doc \in IF d = "iiif" THEN IiifDocuments
                                     ELSE TextDocuments}]

\* The iteration orders of the label maps that one parse of the manifest
\* builds: one order for each map.
AllOrders == UNION {IterationOrders(l.entries) : l \in Labels}

HashOrders(data) ==
    IF ~IsSome(data.contents) THEN {<<>>}
    ELSE IF ~("manifest" \in DOMAIN Unwrap(data.contents)) THEN {<<>>}
    ELSE IF ~IsSome(Unwrap(data.contents).manifest) THEN {<<>>}
    ELSE LET m == Unwrap(Unwrap(data.contents).manifest)
             md == IF IsSome(m.metadata) THEN Unwrap(m.metadata) ELSE <<>>
         IN {[label |-> l, metadata |-> e, items |-> c] :
                l \in IterationOrders(m.label.entries),
                e \in {f \in [1..Len(md) ->
                                 [label : AllOrders, value : AllOrders]] :
                          \A k \in 1..Len(md) :
                             /\ f[k].label
                                    \in IterationOrders(md[k].label.entries)
                             /\ f[k].value
                                    \in IterationOrders(md[k].value.entries)},
                c \in {f \in [1..Len(m.items) -> AllOrders] :
                          \A k \in 1..Len(m.items) :
                             f[k] \in IterationOrders(
                                          m.items[k].label.entries)}}

\* dezoomer_result of a fresh instance of the dezoomer d.
fresh_dezoomer_result(d, data, paths, h) ==
    IF d = "iiif" THEN iiif_dezoomer_result(data, h)
    ELSE bulk_text_dezoomer_result(data, paths)

PurInit ==
    /\ pur_dezoomer \in {"iiif", "bulk_text"}
    /\ pur_input \in PurInputs(pur_dezoomer)
    /\ pur_fs \in IF pur_dezoomer = "iiif" THEN {{}}
                  ELSE SUBSET {PathWord}
    /\ pur_first = PurNoResult
    /\ pur_second = PurNoResult

PurIdle ==
    /\ pur_dezoomer = None
    /\ pur_input = NoneOpt
    /\ pur_fs = {}
    /\ pur_first = PurNoResult
    /\ pur_second = PurNoResult

\* IIIF::default() or BulkTextDezoomer::default(), then dezoomer_result.
FirstInstance ==
    /\ pur_dezoomer # None
    /\ pur_first = PurNoResult
    /\ \E h \in HashOrders(pur_input) :
          pur_first' = fresh_dezoomer_result(pur_dezoomer, pur_input,
                                             pur_fs, h)
    /\ UNCHANGED <<pur_dezoomer, pur_input, pur_fs, pur_second>>
    /\ UNCHANGED notPur

\* Another fresh instance and the same call with the same input.
SecondInstance ==
    /\ pur_first # PurNoResult
    /\ pur_second = PurNoResult
    /\ \E h \in HashOrders(pur_input) :
          pur_second' = fresh_dezoomer_result(pur_dezoomer, pur_input,
                                              pur_fs, h)
    /\ UNCHANGED <<pur_dezoomer, pur_input, pur_fs, pur_first>>
    /\ UNCHANGED notPur

(***************************************************************************)
(* Functions of the crate called once on an input: fn_name says which.     *)
(***************************************************************************)
NoOutput == [kind |-> "NoOutput"]

Returned(v) == [kind |-> "Returned", value |-> v]

FnIdle ==
    /\ fn_name = None
    /\ fn_input = NoneOpt
    /\ fn_output = NoOutput

\* The call f(fn_input) returns v.
Call(f, v) ==
    /\ fn_name = f
    /\ fn_output = NoOutput
    /\ fn_output' = Returned(v)
    /\ UNCHANGED <<fn_name, fn_input>>
    /\ UNCHANGED notFn

\* The fragments of an ExtractedImageInfo: absent, empty or a text.
Fragments == {NoneOpt, Some(""), Some("A"), Some("B"), Some("C")}

TitleInit ==
    /\ fn_name = "determine_title"
    /\ fn_input \in [image_uri : {<<"http://h", "/s", "/info.json">>},
                     manifest_label : Fragments,
                     metadata_title : Fragments,
                     canvas_label : Fragments,
                     canvas_index : {0}]
    /\ fn_output = NoOutput

\* determine_title(&image_info)
DetermineTitle == Call("determine_title", determine_title(fn_input))

\* The image services of the model: with or without an id, the id absolute
\* or relative, with "/info.json", with a trailing slash.
ServiceIds ==
    {<<>>, <<"http://h", "/a">>, <<"/r">>,
     <<"http://h", "/a", "/info.json">>, <<"http://h", "/a", "/">>}

ImageServices ==
    [id : ServiceIds,
     service_type : {"ImageService3", "ImageService2", "ImageService1",
                     "SearchService2"}]

ImageBodies ==
    [id : {<<>>, <<"/img.jpg">>},
     image_type : {"Image", "TextualBody"},
     service : {<<>>} \cup {<<a>> : a \in ImageServices}
                  \cup {<<a, b>> : a, b \in ImageServices}]

\* An image without services, named by its id.
DirectImage(id) == [id |-> <<id>>, image_type |-> "Image", service |-> <<>>]

Annotations ==
    {[motivation |-> Some("painting"), body |-> Some(DirectImage("/b1.jpg"))],
     [motivation |-> Some("commenting"),
      body |-> Some(DirectImage("/b2.jpg"))],
     [motivation |-> NoneOpt, body |-> Some(DirectImage("/b1.jpg"))],
     [motivation |-> Some("painting"), body |-> NoneOpt]}

AnnotationPages ==
    {<<>>} \cup {<<a>> : a \in Annotations}
        \cup {<<a, b>> : a, b \in Annotations}

ExtractCanvases ==
    [label : {LabelNone},
     items : {<<p>> : p \in AnnotationPages}
                 \cup {<<p, q>> : p \in AnnotationPages,
                                  q \in {<<>>, <<[motivation |-> Some("painting"),
                                                  body |-> Some(DirectImage("/b2.jpg"))]>>}}]

\* Manifests of one painting annotation with any image body, and manifests
\* of one or two canvases with their pages and annotations.
ExtractManifests ==
    [label : {LabelNone}, metadata : {NoneOpt},
     items : {<<[label |-> LabelNone,
                 items |-> <<<<[motivation |-> Some("painting"),
                                body |-> Some(b)]>>>>]>> : b \in ImageBodies}
                 \cup {<<c>> : c \in ExtractCanvases}
                 \cup {<<c, d>> : c, d \in ExtractCanvases}]

\* The iteration orders for a manifest without label maps.
NoHashOrders(m) ==
    [label |-> <<>>, metadata |-> <<>>,
     items |-> [k \in 1..Len(m.items) |-> <<>>]]

ExtractInit ==
    /\ fn_name = "extract_image_infos"
    /\ fn_input \in [manifest : ExtractManifests,
                     manifest_url : {<<"http://h", "/m", "/manifest.json">>}]
    /\ fn_output = NoOutput

\* manifest.extract_image_infos(manifest_url)
ExtractImageInfos ==
    Call("extract_image_infos",
         extract_image_infos(fn_input.manifest, fn_input.manifest_url,
                             NoHashOrders(fn_input.manifest)))

\* The labels get_english_or_first is called on: every map from some of
\* three languages to a list that is empty, holds an empty string, the word
\* of the language, or both.
Langs == {"en", "fr", "de"}

Word(lang) ==
    IF lang = "en" THEN "World" ELSE IF lang = "fr" THEN "Monde" ELSE "Welt"

LabelLists(lang) == {<<>>, <<"">>, <<Word(lang)>>, <<"", Word(lang)>>}

LabelMaps ==
    UNION {{{<<l, f[l]>> : l \in S} :
               f \in {g \in [S -> UNION {LabelLists(l) : l \in Langs}] :
                         \A l \in S : g[l] \in LabelLists(l)}} :
           S \in SUBSET Langs}

LabelInit ==
    /\ fn_name = "get_english_or_first"
    /\ fn_input \in
           {[label |-> l, order |-> o] :
               l \in {LabelNone, LabelString(""), LabelString("Hello")},
               o \in {<<>>}}
           \cup UNION {{[label |-> LabelMap(es), order |-> o] :
                           o \in IterationOrders(es)} : es \in LabelMaps}
    /\ fn_output = NoOutput

\* label.get_english_or_first(), the map iterating in the order drawn.
GetEnglishOrFirst ==
    Call("get_english_or_first",
         get_english_or_first(fn_input.label, fn_input.order))

\* The lines parse_text_urls is called on: blank, or a first word followed
\* by nothing or by a title after one or two spaces, with or without
\* spaces around.
ParseWords ==
    {UrlWord, <<"http://h", "/", ".jpg">>, <<"http://h", "/", "d", "/">>,
     <<"http://h", "/", "a", ".b", ".jpg">>, <<"http://h">>,
     TemplateWord, OtherWord, <<"#", "c">>}

ParseLines ==
    {<<>>, <<Space>>}
        \cup {pad \o <<w>> \o rest \o pad :
                 w \in ParseWords,
                 rest \in {<<>>, <<Space, TitleWord>>,
                           <<Space, Space, TitleWord>>},
                 pad \in {<<>>, <<Space>>}}

ParseInit ==
    /\ fn_name = "parse_text_urls"
    /\ fn_input \in UNION {[1..n -> ParseLines] : n \in 0..MaxTextLines}
    /\ fn_output = NoOutput

\* parse_text_urls(content), no path of the content existing
ParseTextUrls == Call("parse_text_urls", parse_text_urls(fn_input, {}))

(***************************************************************************)
(* The Zoomify dezoomer (zoomify/mod.rs); the levels and the tile groups   *)
(* of ImageProperties are the ones the specification describes.            *)
(***************************************************************************)
\* Vec2d::ceil_div
ceil_div(a, b) == Vec2d((a.x + b.x - 1) \div b.x, (a.y + b.y - 1) \div b.y)

\* The sizes of the levels from the full image down: each the half of the
\* one before, rounded up, until both dimensions fit in one tile.
RECURSIVE halvings(_, _)
halvings(size, tile_size) ==
    IF size.x <= tile_size.x /\ size.y <= tile_size.y THEN <<size>>
    ELSE <<size>> \o halvings(ceil_div(size, Vec2d(2, 2)), tile_size)

\* The number of tiles of the first n of the sizes.
RECURSIVE tiles_in(_, _, _)
tiles_in(sizes, tile_size, n) ==
    IF n = 0 THEN 0
    ELSE tiles_in(sizes, tile_size, n - 1)
             + ceil_div(sizes[n], tile_size).x
                   * ceil_div(sizes[n], tile_size).y

\* ImageProperties::levels: the levels from the smallest to the full
\* image, each with the number of tiles of the levels before it.
image_properties_levels(props) ==
    LET tile_size == Vec2d(props.tile_size, props.tile_size)
        down == halvings(Vec2d(props.width, props.height), tile_size)
        up == [k \in 1..Len(down) |-> down[Len(down) + 1 - k]]
    IN [k \in 1..Len(up) |->
           [size |-> up[k], tile_size |-> tile_size,
            tiles_before |-> tiles_in(up, tile_size, k - 1)]]

\* ZoomLevelInfo::tile_group: 256 tiles to a group, counted in row-major
\* order across the levels.
tile_group(level_info, pos) ==
    (level_info.tiles_before + pos.x
         + pos.y * ceil_div(level_info.size, level_info.tile_size).x)
        \div 256

\* url.split("/ImageProperties.xml").next()
base_url_of(url) ==
    LET IsProperties(piece) == piece = "/ImageProperties.xml"
        p == find(url, IsProperties)
    IN IF p = 0 THEN url ELSE SubSeq(url, 1, p - 1)

\* load_from_properties: the levels with their number and the base url.
load_from_properties(url, props) ==
    LET infos == image_properties_levels(props)
    IN [k \in 1..Len(infos) |->
           [base_url |-> base_url_of(url), level_info |-> infos[k],
            level |-> k - 1]]

\* The variant of tile_url with the row before the column.
tile_url_row_first(lvl, pos) ==
    lvl.base_url
        \o <<"/TileGroup", ToString(tile_group(lvl.level_info, pos)), "/",
             ToString(lvl.level), "-", ToString(pos.y), "-",
             ToString(pos.x), ".jpg">>

\* ZoomifyLevel::tile_url
tile_url(lvl, pos) ==
    lvl.base_url
        \o <<"/TileGroup", ToString(tile_group(lvl.level_info, pos)), "/",
             ToString(lvl.level), "-", ToString(pos.x), "-",
             ToString(pos.y), ".jpg">>

\* The images of the model: the one of test_tilegroups and a small one.
ZoomifyProperties ==
    {[width |-> 12000, height |-> 9788, tile_size |-> 256],
     [width |-> 1000, height |-> 1000, tile_size |-> 256]}

ZoomifyUrl == <<"http://x.fr/y", "/ImageProperties.xml", "?t">>

\* Every tile of every level of the images.
ZoomifyInit ==
    /\ fn_name = "tile_url"
    /\ fn_input \in
           UNION {UNION {{[props |-> props, level |-> z, pos |-> Vec2d(px, py)] :
                             px \in 0..(ceil_div(image_properties_levels(props)[z + 1].size,
                                                 image_properties_levels(props)[z + 1].tile_size).x - 1),
                             py \in 0..(ceil_div(image_properties_levels(props)[z + 1].size,
                                                 image_properties_levels(props)[z + 1].tile_size).y - 1)} :
                         z \in 0..(Len(image_properties_levels(props)) - 1)} :
                  props \in ZoomifyProperties}
    /\ fn_output = NoOutput

\* load_from_properties(url, contents), then tile_url(pos) on a level.
TileUrl ==
    Call("tile_url",
         tile_url(load_from_properties(ZoomifyUrl,
                                       fn_input.props)[fn_input.level + 1],
                  fn_input.pos))

(***************************************************************************)
(* max_size_in_rect (lib.rs): the size a tile can have at a position of a  *)
(* canvas.  Vec2d is a pair of u32; a build with overflow checks panics    *)
(* where the arithmetic leaves the width, a build without them wraps.      *)
(***************************************************************************)
Panicked == [kind |-> "Panicked"]

\* a + b on unsigned integers.
uadd(a, b) == [value |-> (a + b) % UModulus, overflow |-> a + b >= UModulus]

\* The variant of max_size_in_rect that does not clip.
max_size_unclipped(position, tile_size, canvas, checks) ==
    Returned(tile_size)

\* (position + tile_size).min(canvas) - position
max_size_in_rect(position, tile_size, canvas, checks) ==
    LET sum_x == uadd(position.x, tile_size.x)
        sum_y == uadd(position.y, tile_size.y)
        least == vmin(Vec2d(sum_x.value, sum_y.value), canvas)
        diff_x == usub(least.x, position.x)
        diff_y == usub(least.y, position.y)
    IN IF checks /\ (\/ sum_x.overflow \/ sum_y.overflow
                     \/ diff_x.overflow \/ diff_y.overflow)
       THEN Panicked
       ELSE Returned(Vec2d(diff_x.value, diff_y.value))

\* The components of the vectors of the model: the ends of the width and
\* the values next to them.
Components == {0, 1, 2, UModulus \div 2, UModulus - 2, UModulus - 1}

\* A position inside the canvas, a tile size, and the kind of build.
RectInit ==
    /\ fn_name = "max_size_in_rect"
    /\ fn_input \in
           {r \in [position : Components \X {0, 1, UModulus - 1},
                   tile_size : Components \X {1, 2, UModulus - 1},
                   canvas_size : Components \X {1, UModulus - 1},
                   checks : BOOLEAN] :
               /\ r.position[1] <= r.canvas_size[1]
               /\ r.position[2] <= r.canvas_size[2]}
    /\ fn_output = NoOutput

MaxSizeInRect ==
    /\ fn_name = "max_size_in_rect"
    /\ fn_output = NoOutput
    /\ fn_output' =
           max_size_in_rect(Vec2d(fn_input.position[1], fn_input.position[2]),
                            Vec2d(fn_input.tile_size[1], fn_input.tile_size[2]),
                            Vec2d(fn_input.canvas_size[1],
                                  fn_input.canvas_size[2]),
                            fn_input.checks)
    /\ UNCHANGED <<fn_name, fn_input>>
    /\ UNCHANGED notFn

(***************************************************************************)
(* find_zoomlevel (lib.rs 228-251): the images of the uri, choose_image,   *)
(* into_zoom_levels on the chosen image, choose_level.                     *)
(***************************************************************************)
FindInit ==
    /\ fz_pc = "start"
    /\ fz_args \in [zoom_level : {NoneOpt, Some(0)}, max_width : {NoneOpt},
                    max_height : {NoneOpt, Some(1)}, bulk : {FALSE}]
    /\ fz_resolved = <<>>
    /\ fz_levels = NoneOpt
    /\ fz_level_calls = 0
    /\ fz_result = ChNone
    /\ ch_pc = "idle"
    /\ images = <<>>
    /\ args \in [image_index : {NoneOpt} \cup {Some(k) : k \in 0..MaxIndex},
                 bulk : {FALSE}]
    /\ line = <<>>
    /\ prompts = 0
    /\ ch_result = ChNone

FindIdle ==
    /\ fz_pc = "idle"
    /\ fz_args = [zoom_level |-> NoneOpt, max_width |-> NoneOpt,
                  max_height |-> NoneOpt, bulk |-> FALSE]
    /\ fz_resolved = <<>>
    /\ fz_levels = NoneOpt
    /\ fz_level_calls = 0
    /\ fz_result = ChNone

\* get_images_from_uri(args, &http_client, &uri).await? gave the images;
\* choose_image(images, args) is called.
GetImages ==
    /\ fz_pc = "start"
    /\ \E n \in 0..MaxImages : images' = SubSeq(AllImages, 1, n)
    /\ ch_pc' = "start"
    /\ fz_pc' = "choose_image"
    /\ UNCHANGED <<args, line, prompts, ch_result>>
    /\ UNCHANGED <<fz_args, fz_resolved, fz_levels, fz_level_calls,
                   fz_result>>
    /\ UNCHANGED notFind

\* choose_input_uri, client or get_images_from_uri failed.
GetImagesFailed ==
    /\ fz_pc = "start"
    /\ fz_pc' = "done"
    /\ fz_result' = ChErr("Dezoomer")
    /\ UNCHANGED <<fz_args, fz_resolved, fz_levels, fz_level_calls>>
    /\ UNCHANGED chooseVars
    /\ UNCHANGED notFind

\* choose_image(images, args)? returned an error.
ChooseImageFailed ==
    /\ fz_pc = "choose_image"
    /\ ch_pc = "done"
    /\ ch_result.kind = "Err"
    /\ fz_pc' = "done"
    /\ fz_result' = ch_result
    /\ UNCHANGED <<fz_args, fz_resolved, fz_levels, fz_level_calls>>
    /\ UNCHANGED chooseVars
    /\ UNCHANGED notFind

\* The variant of IntoZoomLevels that resolves the first image of the
\* result.
IntoZoomLevelsOfFirst ==
    /\ fz_pc = "choose_image"
    /\ ch_pc = "done"
    /\ ch_result.kind = "Ok"
    /\ fz_resolved' = Append(fz_resolved, images[1])
    /\ \E lvls \in LevelLists(MaxLevels) : fz_levels' = Some(lvls)
    /\ fz_pc' = "choose_level"
    /\ UNCHANGED <<fz_args, fz_level_calls, fz_result>>
    /\ UNCHANGED chooseVars
    /\ UNCHANGED notFind

\* selected_image.into_zoom_levels(&http_client).await gave the levels.
IntoZoomLevels ==
    /\ fz_pc = "choose_image"
    /\ ch_pc = "done"
    /\ ch_result.kind = "Ok"
    /\ fz_resolved' = Append(fz_resolved, ch_result.image)
    /\ \E lvls \in LevelLists(MaxLevels) : fz_levels' = Some(lvls)
    /\ fz_pc' = "choose_level"
    /\ UNCHANGED <<fz_args, fz_level_calls, fz_result>>
    /\ UNCHANGED chooseVars
    /\ UNCHANGED notFind

\* into_zoom_levels failed: map_err to ZoomError::Dezoomer, and `?`.
IntoZoomLevelsFailed ==
    /\ fz_pc = "choose_image"
    /\ ch_pc = "done"
    /\ ch_result.kind = "Ok"
    /\ fz_resolved' = Append(fz_resolved, ch_result.image)
    /\ fz_pc' = "done"
    /\ fz_result' = ChErr("Dezoomer")
    /\ UNCHANGED <<fz_args, fz_levels, fz_level_calls>>
    /\ UNCHANGED chooseVars
    /\ UNCHANGED notFind

\* choose_level(zoom_levels, args): its result is find_zoomlevel's.
FindChooseLevel ==
    /\ fz_pc = "choose_level"
    /\ fz_level_calls' = fz_level_calls + 1
    /\ fz_result' = choose_level(Unwrap(fz_levels), fz_args)
    /\ fz_pc' = "done"
    /\ UNCHANGED <<fz_args, fz_resolved, fz_levels>>
    /\ UNCHANGED chooseVars
    /\ UNCHANGED notFind

(***************************************************************************)
(* IIIFZoomLevel as a TilesRect (iiif/mod.rs 262-307): the region and the  *)
(* size a tile's url asks for.  The grid of a TilesRect (dezoomer) is not  *)
(* among the sources: it has size().ceil_div(tile_size()) columns and      *)
(* rows.                                                                   *)
(***************************************************************************)
\* IIIFZoomLevel::size: self.page_info.size() / self.scale_factor
iiif_level_size(lvl) ==
    Vec2d(lvl.page_size.x \div lvl.scale_factor,
          lvl.page_size.y \div lvl.scale_factor)

\* The columns and rows of the level's grid.
iiif_tile_count(lvl) == ceil_div(iiif_level_size(lvl), lvl.tile_size)

\* tile_url without the clipping of the tile to the image.
iiif_tile_url_unclipped(lvl, col_and_row_pos, checks) ==
    Returned([x |-> col_and_row_pos.x * lvl.tile_size.x * lvl.scale_factor,
              y |-> col_and_row_pos.y * lvl.tile_size.y * lvl.scale_factor,
              img_w |-> lvl.tile_size.x * lvl.scale_factor,
              img_h |-> lvl.tile_size.y * lvl.scale_factor,
              w |-> lvl.tile_size.x,
              h |-> lvl.tile_size.y])

\* IIIFZoomLevel::tile_url: the numbers of "{x},{y},{img_w},{img_h}" and
\* of the size "{w},{h}" in the url.  The products are u32 products: a
\* build with overflow checks panics where one leaves the width.
iiif_tile_url(lvl, col_and_row_pos, checks) ==
    LET sx == umul(lvl.tile_size.x, lvl.scale_factor)
        sy == umul(lvl.tile_size.y, lvl.scale_factor)
        px == umul(col_and_row_pos.x, sx.value)
        py == umul(col_and_row_pos.y, sy.value)
        xy_pos == Vec2d(px.value, py.value)
        scaled_tile_size ==
            max_size_in_rect(xy_pos, Vec2d(sx.value, sy.value),
                             lvl.page_size, checks)
    IN IF checks /\ (\/ sx.overflow \/ sy.overflow
                     \/ px.overflow \/ py.overflow)
       THEN Panicked
       ELSE IF scaled_tile_size = Panicked THEN Panicked
       ELSE Returned([x |-> xy_pos.x,
                      y |-> xy_pos.y,
                      img_w |-> scaled_tile_size.value.x,
                      img_h |-> scaled_tile_size.value.y,
                      w |-> scaled_tile_size.value.x \div lvl.scale_factor,
                      h |-> scaled_tile_size.value.y \div lvl.scale_factor])

\* The sizes, tile sizes and scale factors of the model.
IiifLevels ==
    [page_size : {Vec2d(pw, ph) : pw \in 1..(UModulus - 1),
                                  ph \in {1, UModulus - 1}},
     tile_size : {Vec2d(tw, th) : tw \in 1..(UModulus - 1), th \in {1, 2}},
     scale_factor : 1..(UModulus - 1)]

\* A level, a tile of its grid, and the kind of build.
IiifTileInit ==
    /\ fn_name = "iiif_tile_url"
    /\ fn_input \in
           UNION {[lvl : {lvl},
                   col_and_row_pos :
                       {Vec2d(c, r) :
                           c \in 0..(iiif_tile_count(lvl).x - 1),
                           r \in 0..(iiif_tile_count(lvl).y - 1)},
                   checks : BOOLEAN] : lvl \in IiifLevels}
    /\ fn_output = NoOutput

IiifTileUrl ==
    /\ fn_name = "iiif_tile_url"
    /\ fn_output = NoOutput
    /\ fn_output' = iiif_tile_url(fn_input.lvl, fn_input.col_and_row_pos,
                                  fn_input.checks)
    /\ UNCHANGED <<fn_name, fn_input>>
    /\ UNCHANGED notFn

(***************************************************************************)
(* The specifications.                                                     *)
(***************************************************************************)
\* The machines other than m are not running.
OthersIdle(m) ==
    /\ IF m = "level" THEN TRUE ELSE LevelIdle
    /\ IF m = "dezoomer" THEN TRUE ELSE DezIdle
    /\ IF m = "choose" THEN TRUE ELSE ChooseIdle
    /\ IF m = "bulk" THEN TRUE ELSE BulkIdle
    /\ IF m = "pick" THEN TRUE ELSE PickIdle
    /\ IF m = "gap" THEN TRUE ELSE GapIdle
    /\ IF m = "canvas" THEN TRUE ELSE CanvasIdle
    /\ IF m = "png" THEN TRUE ELSE PngIdle
    /\ IF m = "purity" THEN TRUE ELSE PurIdle
    /\ IF m = "fn" THEN TRUE ELSE FnIdle
    /\ IF m = "find" THEN TRUE ELSE FindIdle

Init == LevelInit /\ OthersIdle("level")

Next ==
    \/ CoordinatorNew
    \/ NextBatch
    \/ NoMoreBatches
    \/ TileSuccess
    \/ TileFailure
    \/ DownloadBatchReturn
    \/ DownloadBatchFatal
    \/ SetFetchResult
    \/ ValidateDownloadSuccess
    \/ Finalize
    \/ DetermineFinalResult

Spec == Init /\ [][Next]_vars

NextDezoomer ==
    \/ CallDezoomer
    \/ FetchNeeded

InitDezoomer == DezInit /\ OthersIdle("dezoomer")

SpecDezoomer == InitDezoomer /\ [][NextDezoomer]_vars

InitChoose == ChooseInit /\ OthersIdle("choose")

NextChoose ==
    \/ ChooseImage
    \/ ImagePickerLine
    \/ ImagePickerEof

SpecChoose == InitChoose /\ [][NextChoose]_vars

InitFind ==
    /\ FindInit
    /\ LevelIdle /\ DezIdle /\ BulkIdle /\ PickIdle /\ GapIdle
    /\ CanvasIdle /\ PngIdle /\ PurIdle /\ FnIdle

NextFind ==
    \/ GetImages
    \/ GetImagesFailed
    \/ ChooseImage
    \/ ImagePickerLine
    \/ ImagePickerEof
    \/ ChooseImageFailed
    \/ IntoZoomLevels
    \/ IntoZoomLevelsFailed
    \/ FindChooseLevel

SpecFind == InitFind /\ [][NextFind]_vars

InitBulk == BulkInit /\ OthersIdle("bulk")

NextBulk ==
    \/ SetTotal
    \/ ResolveImage
    \/ ResolveImageFailed
    \/ ChooseLevel
    \/ LevelPickerLine
    \/ LevelPickerEof
    \/ ReserveOutputFile
    \/ CreateTileBuffer
    \/ DezoomifyLevel
    \/ BulkReturn

SpecBulk == InitBulk /\ [][NextBulk]_vars

InitPick == PickInit /\ OthersIdle("pick")

NextPick ==
    \/ PickLevel
    \/ PickerLine
    \/ PickerEof

SpecPick == InitPick /\ [][NextPick]_vars

InitGap == GapInit /\ OthersIdle("gap")

NextGap == ZoomLevels

SpecGap == InitGap /\ [][NextGap]_vars

InitCanvas == CanvasInit /\ OthersIdle("canvas")

NextCanvas == AddTile

SpecCanvas == InitCanvas /\ [][NextCanvas]_vars

InitPng == PngInit /\ OthersIdle("png")

NextPng ==
    \/ PngAddTile
    \/ PngFinalize

SpecPng == InitPng /\ [][NextPng]_vars

InitPur == PurInit /\ OthersIdle("purity")

NextPur ==
    \/ FirstInstance
    \/ SecondInstance

SpecPur == InitPur /\ [][NextPur]_vars

InitTitle == TitleInit /\ OthersIdle("fn")

NextTitle == DetermineTitle

SpecTitle == InitTitle /\ [][NextTitle]_vars

InitIiifTile == IiifTileInit /\ OthersIdle("fn")

NextIiifTile == IiifTileUrl

SpecIiifTile == InitIiifTile /\ [][NextIiifTile]_vars

InitRect == RectInit /\ OthersIdle("fn")

NextRect == MaxSizeInRect

SpecRect == InitRect /\ [][NextRect]_vars

InitZoomify == ZoomifyInit /\ OthersIdle("fn")

NextZoomify == TileUrl

SpecZoomify == InitZoomify /\ [][NextZoomify]_vars

InitParse == ParseInit /\ OthersIdle("fn")

NextParse == ParseTextUrls

SpecParse == InitParse /\ [][NextParse]_vars

InitLabel == LabelInit /\ OthersIdle("fn")

NextLabel == GetEnglishOrFirst

SpecLabel == InitLabel /\ [][NextLabel]_vars

InitExtract == ExtractInit /\ OthersIdle("fn")

NextExtract == ExtractImageInfos

SpecExtract == InitExtract /\ [][NextExtract]_vars

(***************************************************************************)
(* Claims about dezoomify_level, checked under Spec.                       *)
(***************************************************************************)

\* The run was classified: the batch loop ended and neither download_batch
\* nor finalize returned an error of its own.
Classified == pc = "done" /\ result.kind \in {"Ok", "PartialDownload", "NoTile"}

\* C1: dezoomify_level classifies a finished run from the counters alone: Ok
\* when at least one tile succeeded and none failed, PartialDownload with
\* the state's successful_tiles and total_tiles when at least one succeeded
\* and at least one failed, NoTile when none succeeded (also when the level
\* produced no batch); and a run whose loop ended with no successful tile
\* returns NoTile whatever else happened.
C1_Classification ==
    /\ Classified =>
          /\ (state.successful_tiles > 0 /\ state.failed_tiles = 0)
                => result = [kind |-> "Ok", successful_tiles |-> 0,
                             total_tiles |-> 0]
          /\ (state.successful_tiles > 0 /\ state.failed_tiles > 0)
                => result = [kind |-> "PartialDownload",
                             successful_tiles |-> state.successful_tiles,
                             total_tiles |-> state.total_tiles]
          /\ state.successful_tiles = 0 => result.kind = "NoTile"
    /\ (pc = "done" /\ batches_returned = batches_requested
          /\ result.kind # "Fatal" /\ state.successful_tiles = 0)
          => result.kind = "NoTile"

\* A partial download of two batches was classified.
C1_Witness ==
    /\ Classified
    /\ result.kind = "PartialDownload"
    /\ batches_returned = 2
    /\ state.failed_tiles > 0

\* C2: whenever dezoomify_level returns PartialDownload, finalize() was
\* called once, after the last batch had returned, it succeeded, and the
\* output holds every tile that was added to the encoder.
C2_PartialWritesOutput ==
    result.kind = "PartialDownload" =>
        /\ finalize_calls = 1
        /\ finalized_at = batches_requested
        /\ batches_returned = batches_requested
        /\ output_tiles = canvas_tiles
        /\ output_tiles = state.successful_tiles
        /\ output_tiles > 0

\* A partial download was returned with a tile of the second batch written.
C2_Witness ==
    /\ result.kind = "PartialDownload"
    /\ batches_returned = 2
    /\ output_tiles = 2

\* The state between the batches, for C3.
C3_Inv ==
    /\ in_flight \in {0, 1}
    /\ in_flight = 1 =>
          /\ batches_returned = batches_requested - 1
          /\ fetch_results = batches_requested - 1
    /\ fetch_results <= batches_returned
    /\ batches_returned <= batches_requested

\* The step that requests a batch, for C3.
C3_Step ==
    batches_requested' # batches_requested =>
        /\ batches_requested' = batches_requested + 1
        /\ in_flight = 0
        /\ batches_returned = batches_requested
        /\ fetch_results = batches_requested

\* C3: batch n+1 is requested only after download_batch for batch n has
\* returned and its result was passed to set_fetch_result; between two
\* consecutive batches there is exactly one set_fetch_result call, and at
\* most one batch is being downloaded at any time.
C3_BatchOrder == [](C3_Inv) /\ [][C3_Step]_vars

\* The second batch is being downloaded.
C3_Witness ==
    /\ pc = "downloading"
    /\ batches_requested = 2
    /\ fetch_results = 1

\* C4: after every batch successful_tiles + failed_tiles is the number of
\* tile references submitted so far; after the whole run total_tiles is the
\* sum of all batch sizes; in every state successful_tiles + failed_tiles
\* <= total_tiles.
C4_Accounting ==
    /\ state.successful_tiles + state.failed_tiles <= state.total_tiles
    /\ (in_flight = 0 /\ batches_returned = batches_requested) =>
          /\ state.successful_tiles + state.failed_tiles = submitted
          /\ state.total_tiles = submitted

\* A run of two batches, with failures, came to its end.
C4_Witness ==
    /\ Classified
    /\ batches_returned = 2
    /\ state.failed_tiles > 0
    /\ state.total_tiles > 2


(***************************************************************************)
(* Claims about get_dezoomer_result, checked under SpecDezoomer.           *)
(***************************************************************************)

\* The calls of the trace, and whether position k holds a call.
IsCall(k) == k \in 1..Len(trace) /\ trace[k].ev = "call"

IsFetch(k) == k \in 1..Len(trace) /\ trace[k].ev = "fetch"

\* C5: get_dezoomer_result drives one instance through the NeedsData
\* protocol.  The first call has the input uri and Unknown contents; a call
\* answered NeedsData{uri} is followed by one fetch of exactly that uri and
\* then by a call of the same instance with that uri and the contents that
\* fetch gave; a call answered otherwise is the last event, and its answer
\* is what is returned.
C5_NeedsDataProtocol ==
    /\ Len(trace) >= 1 =>
          /\ IsCall(1)
          /\ trace[1].uri = input_uri
          /\ trace[1].contents = Unknown
    /\ \A k \in 1..Len(trace) :
          /\ IsCall(k) =>
                /\ trace[k].seen = Cardinality({j \in 1..(k-1) : IsCall(j)})
                /\ trace[k].response.kind = "NeedsData" =>
                      /\ k < Len(trace) =>
                            /\ IsFetch(k + 1)
                            /\ trace[k + 1].uri = trace[k].response.data
                      /\ k = Len(trace) =>
                            /\ dz_pc = "fetch"
                            /\ needs = trace[k].response.data
                /\ trace[k].response.kind # "NeedsData" =>
                      /\ k = Len(trace)
                      /\ dz_pc = "done"
                      /\ dz_result = trace[k].response
          /\ IsFetch(k) =>
                /\ IsCall(k - 1)
                /\ trace[k - 1].response.kind = "NeedsData"
                /\ k < Len(trace) =>
                      /\ IsCall(k + 1)
                      /\ trace[k + 1].uri = trace[k].uri
                      /\ trace[k + 1].contents = trace[k].contents
                /\ k = Len(trace) =>
                      /\ dz_pc = "call"
                      /\ i = [uri |-> trace[k].uri,
                              contents |-> trace[k].contents]
    /\ dz_pc = "done" =>
          /\ Len(trace) >= 1
          /\ IsCall(Len(trace))
          /\ dz_result = trace[Len(trace)].response
          /\ dz_result.kind # "NeedsData"
    /\ dz_pc # "done" => dz_result = None

\* An Ok result was returned after two rounds: the second call got the
\* bytes of the first fetch, the third the error of the second fetch.
C5_Witness ==
    /\ dz_pc = "done"
    /\ dz_result.kind = "Ok"
    /\ Len(trace) = 5
    /\ trace[3].contents.kind = "Success"
    /\ trace[3].uri # input_uri
    /\ trace[5].contents.kind = "Error"

\* Every answer of the dezoomer so far was NeedsData.
AllNeedsData == \A k \in 1..Len(trace) : IsCall(k) => trace[k].response.kind = "NeedsData"

\* C6: the loop has no bound of its own: however many rounds were made, as
\* long as every answer of the dezoomer was NeedsData the loop has not
\* returned, and after such an answer it fetches and calls again.
C6_NoBuiltInBound ==
    AllNeedsData =>
        /\ dz_pc \in {"call", "fetch"}
        /\ dz_result = None
        /\ Len(trace) >= 1 =>
              IF IsCall(Len(trace)) THEN dz_pc = "fetch" ELSE dz_pc = "call"

\* The dezoomer answered NeedsData in every round the model allows and is
\* about to be called again.
C6_Witness ==
    /\ AllNeedsData
    /\ Rounds = MaxRounds
    /\ dz_pc = "call"

(***************************************************************************)
(* Claims about choose_image, checked under SpecChoose.                    *)
(***************************************************************************)

Min(a, b) == IF a <= b THEN a ELSE b

\* C10: choose_image returns NoLevels for an empty list, the only image for
\* a list of one (whatever image_index is), and for two or more images the
\* image at index min(image_index, count-1) when image_index is configured,
\* otherwise the first image in bulk mode, otherwise the image whose index
\* the user entered at the prompt; a configured image_index wins over bulk
\* mode, and the returned index is always < count.
C10_ChooseImage ==
    LET count == Len(images) IN
    /\ (ch_pc = "done" /\ count = 0) =>
          ch_result = [kind |-> "Err", index |-> <<>>, image |-> "NoLevels"]
    /\ (ch_pc = "done" /\ count = 1) =>
          ch_result = [kind |-> "Ok", index |-> <<0>>, image |-> images[1]]
    /\ (ch_pc = "done" /\ count >= 2 /\ args.image_index # <<>>) =>
          /\ ch_result.kind = "Ok"
          /\ ch_result.index = <<Min(args.image_index[1], count - 1)>>
          /\ prompts = 0
    /\ (ch_pc = "done" /\ count >= 2 /\ args.image_index = <<>> /\ args.bulk) =>
          /\ ch_result.kind = "Ok"
          /\ ch_result.index = <<0>>
          /\ prompts = 0
    /\ (ch_pc = "done" /\ count >= 2 /\ args.image_index = <<>> /\ ~args.bulk) =>
          /\ prompts >= 1
          /\ ch_result.kind = "Ok" =>
                /\ ParseUsize(line) # <<>>
                /\ ch_result.index = ParseUsize(line)
    /\ (ch_pc = "done" /\ ch_result.kind = "Ok") =>
          /\ ch_result.index # <<>>
          /\ ch_result.index[1] \in 0..(count - 1)
          /\ ch_result.image = images[ch_result.index[1] + 1]
    /\ ch_pc = "prompt" =>
          (count >= 2 /\ args.image_index = <<>> /\ ~args.bulk)

\* In bulk mode, with three images and image_index 4 configured, the last
\* image was returned.
C10_Witness ==
    /\ ch_pc = "done"
    /\ Len(images) = 3
    /\ args.bulk
    /\ args.image_index = <<4>>
    /\ ch_result.kind = "Ok"
    /\ ch_result.index = <<2>>

(***************************************************************************)
(* Claims about bulk mode, checked under SpecBulk.                         *)
(***************************************************************************)

\* The loop body is running for an image.
InBody == bk_pc \in {"choose", "prompt", "reserve", "buffer", "dezoomify"}

C7_Inv ==
    /\ index \in 0..Len(bk_images)
    /\ InBody => (index < Len(bk_images) /\ current = bk_images[index + 1])
    /\ bk_pc = "returned" => (bk_result = "Ok" /\ index = Len(bk_images))
    /\ bk_pc # "returned" => (bk_result = None /\ ENABLED NextBulk)

C7_Step ==
    /\ index' # index => (index' = index + 1 /\ bk_pc' = "loop")
    /\ (bk_pc # "returned" /\ bk_pc' = "returned") => index = Len(bk_images)

\* C7: in bulk mode a failure for one image never aborts the run: whatever
\* step fails for image i, the loop goes on with image i+1; the images are
\* taken in list order, one at a time; the run can always go on until it
\* returns, it returns only after the last image, and it returns Ok.
C7_FailuresDoNotAbort == [](C7_Inv) /\ [][C7_Step]_vars

\* The run returned after two images of which the first failed and the
\* second was downloaded.
C7_Witness ==
    /\ bk_pc = "returned"
    /\ Len(bk_images) = 2
    /\ stats.failed_images = 1
    /\ stats.successful_images = 1

Recorded(s) == s.successful_images + s.partial_downloads + s.failed_images

C8_Inv ==
    /\ Recorded(stats) = index
    /\ bk_pc # "start" => stats.total_images = Len(bk_images)
    /\ bk_pc = "returned" =>
          (Recorded(stats) = stats.total_images
              /\ stats.total_images = Len(bk_images))

C8_Step ==
    /\ bk_pc # "start" => stats'.total_images = stats.total_images
    /\ index' = index + 1 <=> Recorded(stats') = Recorded(stats) + 1
    /\ index' = index <=> stats' = stats \/ bk_pc = "start"
    /\ stats'.successful_images \in
          {stats.successful_images, stats.successful_images + 1}
    /\ stats'.partial_downloads \in
          {stats.partial_downloads, stats.partial_downloads + 1}
    /\ stats'.failed_images \in
          {stats.failed_images, stats.failed_images + 1}

\* C8: every image increments exactly one of successful_images,
\* partial_downloads, failed_images; at any point their sum is the number of
\* images already processed, and at the end it equals total_images, the
\* length of the dezoomer result.  Recording an outcome changes neither
\* total_images nor another counter.
C8_BulkAccounting == [](C8_Inv) /\ [][C8_Step]_vars

\* The run returned with one image partial and one failed.
C8_Witness ==
    /\ bk_pc = "returned"
    /\ stats.total_images = 2
    /\ stats.partial_downloads = 1
    /\ stats.failed_images = 1

\* The level the configuration selects among `lvls`, if it selects one.
Configured(lvls, a) ==
    IF IsSome(a.zoom_level)
    THEN Some(Min(Unwrap(a.zoom_level), Len(lvls) - 1))
    ELSE IF IsSome(best_size(a, lvls))
    THEN find_level_with_size(lvls, Unwrap(best_size(a, lvls)))
    ELSE NoneOpt

\* C9: in bulk mode no interactive prompt is ever reached: for an image
\* with several zoom levels the level is chosen automatically, the level
\* selected by the configuration if there is one and otherwise the first
\* level.
C9_NoPromptInBulk ==
    /\ bk_prompts = 0
    /\ bk_pc # "prompt"
    /\ (bk_pc = "reserve" /\ Len(zoom_levels) >= 2) =>
          zoom_level.index =
              IF IsSome(Configured(zoom_levels, bk_args))
              THEN Configured(zoom_levels, bk_args)
              ELSE Some(0)

(***************************************************************************)
(* Claims about choose_level, checked under SpecPick.                      *)
(***************************************************************************)

\* The positions of `levels` whose size hint is the best size of the size
\* policy, none when the policy gives no size.
BestPositions ==
    {k \in 1..Len(levels) :
        /\ IsSome(best_size(lv_args, levels))
        /\ levels[k] = best_size(lv_args, levels)}

\* choose_level goes to the prompt: several levels, no zoom_level, and no
\* level of the best size.
Prompted ==
    /\ Len(levels) >= 2
    /\ ~IsSome(lv_args.zoom_level)
    /\ BestPositions = {}

\* The line is one the prompt accepts: an unsigned integer below the count.
Accepted(l) ==
    /\ IsSome(ParseUsize(l))
    /\ Unwrap(ParseUsize(l)) < Len(levels)

\* C11: choose_level returns NoLevels for an empty list, the only level of
\* a list of one, and for two or more levels the level at index
\* min(zoom_level, count-1) when zoom_level is configured (whatever the
\* size policy), otherwise the first level in list order whose size hint
\* is the best size of the size policy, otherwise the level picked at the
\* prompt; the prompt accepts exactly the lines that parse as an unsigned
\* integer below the count.
C11_ChooseLevel ==
    /\ lv_pc = "prompt" => Prompted
    /\ (lv_pc = "prompt" /\ IsSome(lv_line)) => ~Accepted(Unwrap(lv_line))
    /\ lv_pc = "done" =>
          IF Len(levels) = 0 THEN lv_result = ChErr("NoLevels")
          ELSE IF Len(levels) = 1 THEN lv_result = ChOk(0, levels[1])
          ELSE IF IsSome(lv_args.zoom_level)
          THEN LET k == Min(Unwrap(lv_args.zoom_level), Len(levels) - 1)
               IN lv_result = ChOk(k, levels[k + 1])
          ELSE IF BestPositions # {}
          THEN \E k \in BestPositions :
                  /\ \A j \in BestPositions : k <= j
                  /\ lv_result = ChOk(k - 1, levels[k])
          ELSE \/ lv_result = ChErr("Io")
               \/ /\ IsSome(lv_line)
                  /\ Accepted(Unwrap(lv_line))
                  /\ LET k == Unwrap(ParseUsize(Unwrap(lv_line)))
                     IN lv_result = ChOk(k, levels[k + 1])

\* choose_level returned the level of zoom_level although the size policy
\* selects another level.
C11_Witness ==
    /\ lv_pc = "done"
    /\ Len(levels) >= 2
    /\ IsSome(lv_args.zoom_level)
    /\ BestPositions # {}
    /\ \A k \in BestPositions : lv_result.index # Some(k - 1)

(***************************************************************************)
(* Claims about GAPDezoomer, checked under SpecGap.                        *)
(***************************************************************************)

\* The last call was given fetched contents that parse as a landing page.
GapLandingPage ==
    /\ gap_input.contents.kind = "Success"
    /\ IsSome(Unwrap(gap_input.contents.doc).page)

\* The last call was given fetched contents that parse as tile info.
GapTileInfo ==
    /\ gap_input.contents.kind = "Success"
    /\ IsSome(Unwrap(gap_input.contents.doc).tiles)

\* C12: on a fresh GAPDezoomer a zoom_levels call with a uri on
\* artsandculture.google.com and a parsable landing page stores the page
\* info and returns NeedsData whose uri is the page's base_url followed by
\* "=g"; the next call on the same instance with that uri and parsable
\* tile info returns Ok with exactly one zoom level per pyramid level, in
\* document order, the level's z being its position in the list.
C12_TwoCallProtocol ==
    /\ (gap_calls = 1 /\ contains(gap_input.uri, GapHost) /\ GapLandingPage) =>
          LET page == Unwrap(gap_input.contents.doc).page
          IN /\ page_info = page
             /\ gap_result = GapNeedsData(Unwrap(page).base_url \o <<"=g">>)
    /\ (/\ gap_calls = 2
        /\ IsSome(gap_before)
        /\ gap_prev.kind = "NeedsData"
        /\ gap_input.uri = gap_prev.uri
        /\ GapTileInfo) =>
          LET t == Unwrap(Unwrap(gap_input.contents.doc).tiles)
          IN /\ gap_result.kind = "Ok"
             /\ Len(gap_result.levels) = Len(t.pyramid_level)
             /\ \A k \in 1..Len(t.pyramid_level) :
                   /\ gap_result.levels[k].z = k - 1
                   /\ gap_result.levels[k].size.x =
                          (t.tile_width * t.pyramid_level[k].num_tiles_x
                             - t.pyramid_level[k].empty_pels_x) % UModulus
                   /\ gap_result.levels[k].size.y =
                          (t.tile_height * t.pyramid_level[k].num_tiles_y
                             - t.pyramid_level[k].empty_pels_y) % UModulus

\* C13: zoom_levels returns WrongDezoomer exactly when the uri does not
\* contain "artsandculture.google.com" and it is not the case that
\* page_info was already set and the uri ends with "=g"; a refused call
\* leaves page_info unchanged.
C13_WrongDezoomer ==
    gap_calls >= 1 =>
        /\ gap_result.kind = "WrongDezoomer" <=>
              /\ ~contains(gap_input.uri, GapHost)
              /\ ~(IsSome(gap_before) /\ ends_with(gap_input.uri, "=g"))
        /\ gap_result.kind = "WrongDezoomer" => page_info = gap_before

\* A uri that ends with "=g" and is not on the host was accepted by an
\* instance that has page_info.
C13_Witness ==
    /\ gap_calls >= 2
    /\ IsSome(gap_before)
    /\ ends_with(gap_input.uri, "=g")
    /\ ~contains(gap_input.uri, GapHost)
    /\ gap_result.kind # "WrongDezoomer"

(***************************************************************************)
(* Claims about the canvas encoder, checked under SpecCanvas.              *)
(***************************************************************************)

\* The tile of the last add_tile call.
LastTile == cv_tiles[Len(cv_tiles)]

\* The position lies on the canvas.
OnCanvas(q) == q.x < canvas_size.x /\ q.y < canvas_size.y

\* The region [p, min(p + s, C)) of a tile at p with size s.
ClaimedRegion(tile) ==
    {q \in CanvasPositions :
        /\ tile.position.x <= q.x
        /\ q.x < Min(tile.position.x + tile.size.x, canvas_size.x)
        /\ tile.position.y <= q.y
        /\ q.y < Min(tile.position.y + tile.size.y, canvas_size.y)}

\* C14: for a tile at position p with size s added to a canvas of size C,
\* p inside the canvas, add_tile writes exactly the pixels of the region
\* [p, min(p + s, C)), each with the tile's pixel at the same offset (in
\* the pixel type of the canvas), and modifies no pixel outside the region.
C14_Blit ==
    (Len(cv_tiles) >= 1 /\ OnCanvas(LastTile.position)) =>
        /\ cv_result = CanvasOk
        /\ \A q \in CanvasPositions :
              IF q \in ClaimedRegion(LastTile)
              THEN image[q] =
                       from_rgba(pix, get_pixel(LastTile,
                                                q.x - LastTile.position.x,
                                                q.y - LastTile.position.y))
              ELSE image[q] = cv_before[q]

\* A tile that reaches beyond the canvas was added to a canvas that holds
\* pixels of an earlier tile: the copy is clamped.
C14_Witness ==
    /\ Len(cv_tiles) = 2
    /\ cv_before # BlankImage(pix)
    /\ LastTile.position = Vec2d(1, 1)
    /\ LastTile.size = Vec2d(2, 2)
    /\ image # cv_before
    /\ cv_result = CanvasOk

\* C15: add_tile given a tile whose origin lies outside the canvas returns
\* the InvalidData error "tile too large for image" and writes no pixel;
\* for an accepted tile the subtraction min(bottom_right, canvas_size) -
\* position never underflows.
C15_TileOutside ==
    /\ (Len(cv_tiles) >= 1 /\ ~OnCanvas(LastTile.position)) =>
          /\ cv_result = InvalidData
          /\ image = cv_before
    /\ cv_result # CanvasPanic
    /\ (Len(cv_tiles) >= 1 /\ cv_result = CanvasOk) =>
          ~underflows(vmin(bottom_right(LastTile), canvas_size),
                      LastTile.position)

\* A tile outside the canvas was refused by a canvas that holds pixels.
C15_Witness ==
    /\ Len(cv_tiles) = 2
    /\ cv_before # BlankImage(pix)
    /\ ~OnCanvas(LastTile.position)
    /\ cv_result = InvalidData

\* The positions in cv_tiles of the tiles that carry an ICC profile.
WithProfile == {k \in 1..Len(cv_tiles) : IsSome(cv_tiles[k].icc_profile)}

C16_Inv ==
    pix # "idle" =>
        IF WithProfile = {} THEN icc_profile = NoneOpt
        ELSE \E k \in WithProfile :
                /\ \A j \in WithProfile : k <= j
                /\ icc_profile = cv_tiles[k].icc_profile

C16_Step == IsSome(icc_profile) => icc_profile' = icc_profile

\* C16: the ICC profile of the canvas is first-wins: after any sequence of
\* add_tile calls it is absent if no tile of the sequence carried a
\* profile and otherwise is the profile of the first tile that carried
\* one; once set it never changes.
C16_IccFirstWins == []C16_Inv /\ [][C16_Step]_vars

\* Two tiles with different profiles were added: the first one's is kept.
C16_Witness ==
    /\ Len(cv_tiles) = 2
    /\ IsSome(cv_tiles[1].icc_profile)
    /\ IsSome(cv_tiles[2].icc_profile)
    /\ cv_tiles[1].icc_profile # cv_tiles[2].icc_profile
    /\ icc_profile = cv_tiles[1].icc_profile

\* The image a fresh canvas holds after add_tile on each tile of tiles, in
\* order.
RECURSIVE ImageAfter(_, _)
ImageAfter(tiles, kind) ==
    IF Len(tiles) = 0 THEN BlankImage(kind)
    ELSE add_tile(ImageAfter(SubSeq(tiles, 1, Len(tiles) - 1), kind),
                  NoneOpt, kind, tiles[Len(tiles)]).image

\* The tiles of cv_tiles in the order f, a permutation of the positions.
Reordered(f) == [k \in 1..Len(cv_tiles) |-> cv_tiles[f[k]]]

\* The pixels add_tile writes for a tile: none for a refused tile.
Written(tile) ==
    IF OnCanvas(tile.position) THEN ClaimedRegion(tile) ELSE {}

\* No two tiles of cv_tiles write the same pixel.
DisjointTiles ==
    \A j, k \in 1..Len(cv_tiles) :
        j # k => Written(cv_tiles[j]) \cap Written(cv_tiles[k]) = {}

\* C17 as stated: for a fixed canvas size and a fixed set of tiles the
\* final pixel buffer is the same for every order in which the tiles are
\* passed to add_tile.
C17_OrderIndependent ==
    pix # "idle" =>
        \A f \in Permutations(1..Len(cv_tiles)) :
            ImageAfter(Reordered(f), pix) = image

\* C17, amended: for a fixed canvas size and a fixed set of tiles of which
\* no two write the same pixel, the final pixel buffer is the same for
\* every order in which the tiles are passed to add_tile.
C17_OrderIndependentDisjoint ==
    (pix # "idle" /\ DisjointTiles) =>
        \A f \in Permutations(1..Len(cv_tiles)) :
            ImageAfter(Reordered(f), pix) = image

\* Two tiles that each write pixels, none in common, were added.
C17_Witness ==
    /\ Len(cv_tiles) = 2
    /\ DisjointTiles
    /\ Written(cv_tiles[1]) # {}
    /\ Written(cv_tiles[2]) # {}
    /\ cv_tiles[1].shade # cv_tiles[2].shade

(***************************************************************************)
(* Claims about the streaming PNG encoder, checked under SpecPng.          *)
(***************************************************************************)

\* No call has failed: no I/O error of the header write, no panic.
PngSound == png_result \in {None, PngOk}

\* The header that carries the metadata of the tile.
HeaderOf(tile) ==
    Some([icc_profile |-> tile.icc_profile,
          exif_metadata |-> tile.exif_metadata])

\* The header without metadata.
PlainHeader == Some([icc_profile |-> NoneOpt, exif_metadata |-> NoneOpt])

C18_Inv ==
    /\ header_writes <= 1
    /\ IsSome(header) <=> header_writes = 1
    /\ IsSome(header) =>
          header = IF png_tiles # <<>> THEN HeaderOf(png_tiles[1])
                   ELSE PlainHeader
    /\ (PngSound /\ png_tiles # <<>>) => header_writes = 1
    /\ (PngSound /\ png_pc = "finalized") => header_writes = 1
    /\ (PngSound /\ png_pc = "open" /\ png_tiles = <<>>) => header_writes = 0
    /\ PngSound => streamed = png_tiles

C18_Step == IsSome(header) => header' = header

YCursor(ps) == IF IsSome(ps) THEN Unwrap(ps).y_cursor ELSE png_size.y

C19_Inv ==
    /\ \A k \in 1..Len(written) : written[k].y = k - 1
    /\ \A k \in 1..Len(written) :
          \A px \in 0..(png_size.x - 1) :
              (\A j \in 1..Len(streamed) :
                   ~Covers(streamed[j], px, written[k].y))
                  => written[k].pixels[px] = BlankPixel
    /\ (png_pc = "finalized" /\ png_result = PngOk) =>
          Len(written) = png_size.y

C19_Step ==
    /\ IsSome(pixel_streamer) => YCursor(pixel_streamer') >= YCursor(pixel_streamer)
    /\ Len(written') >= Len(written)
    /\ SubSeq(written', 1, Len(written)) = written

\* C19: whatever the arrival order of the tiles, scanlines are written to
\* the PNG strictly in increasing y order, the row cursor never decreases,
\* and after finalize every row of the image has been written exactly
\* once, the rows covered by no received tile being written blank.
C19_Monotonic == []C19_Inv /\ [][C19_Step]_vars

\* A tile of the second row arrived before a tile of the first row, some
\* place was covered by no tile, and the image was finalized.
C19_Witness ==
    /\ png_pc = "finalized"
    /\ png_result = PngOk
    /\ Len(png_tiles) >= 2
    /\ png_tiles[1].position.y > png_tiles[2].position.y
    /\ Len(written) = png_size.y
    /\ \E k \in 1..Len(written) :
          \E px \in 0..(png_size.x - 1) : written[k].pixels[px] = BlankPixel


(***************************************************************************)
(* C20: purity of dezoomer_result.                                         *)
(***************************************************************************)
\* Both fresh instances have answered.
BothAnswered == pur_first # PurNoResult /\ pur_second # PurNoResult

\* C20: for any input uri and bytes, dezoomer_result on one fresh dezoomer
\* instance and on another fresh instance with the same input yields
\* equal results: the same images in the same order with the same urls
\* and titles, or the same error.
C20_Purity == BothAnswered => pur_first = pur_second


(***************************************************************************)
(* C21, C22: determine_title.                                              *)
(***************************************************************************)
TitleReturned == fn_name = "determine_title" /\ fn_output.kind = "Returned"

\* The fragments that are present, in the order manifest label, metadata
\* title, canvas label.
PresentFragments ==
    fn_input.manifest_label \o fn_input.metadata_title
        \o fn_input.canvas_label

\* The positions of the fragments that differ from every earlier one.
FirstOccurrences ==
    {k \in 1..Len(PresentFragments) :
        \A j \in 1..(k - 1) : PresentFragments[j] # PresentFragments[k]}

\* The a-th fragment that is kept.
KeptFragment(a) ==
    PresentFragments[CHOOSE k \in FirstOccurrences :
                        Cardinality({j \in FirstOccurrences : j <= k}) = a]

\* C21: determine_title joins the fragments manifest label, metadata
\* title, canvas label, in that order, with " - ", keeping each fragment
\* at most once: a fragment equal to a fragment already kept is dropped and
\* the kept fragments stay in their order.
C21_JoinedOnce ==
    (TitleReturned /\ PresentFragments # <<>>) =>
        /\ IsSome(fn_output.value)
        /\ LET title == Unwrap(fn_output.value)
               n == Cardinality(FirstOccurrences)
           IN /\ Len(title) = 2 * n - 1
              /\ \A a \in 1..n : title[2 * a - 1] = KeptFragment(a)
              /\ \A a \in 1..(n - 1) : title[2 * a] = " - "

\* The manifest label and the metadata title are equal, the canvas label
\* differs, and the title holds the two different fragments.
C21_Witness ==
    /\ TitleReturned
    /\ fn_input.manifest_label = Some("A")
    /\ fn_input.metadata_title = Some("A")
    /\ fn_input.canvas_label = Some("B")
    /\ fn_output.value = Some(<<"A", " - ", "B">>)

\* The string is empty: all its pieces are.
IsEmptyString(str) == \A k \in 1..Len(str) : str[k] = ""

\* C22: determine_title drops empty fragments and returns None if and only
\* if all three fragments are empty (absent or the empty string); a title
\* that is returned is non-empty and contains no empty fragment.
C22_EmptyDropped ==
    TitleReturned =>
        /\ fn_output.value = NoneOpt
               <=> \A f \in {fn_input.manifest_label, fn_input.metadata_title,
                             fn_input.canvas_label} : f \in {NoneOpt, Some("")}
        /\ IsSome(fn_output.value) =>
               /\ ~IsEmptyString(Unwrap(fn_output.value))
               /\ \A k \in 1..Len(Unwrap(fn_output.value)) :
                      Unwrap(fn_output.value)[k] # ""


(***************************************************************************)
(* C23, C25: Manifest::extract_image_infos.                                *)
(***************************************************************************)
ExtractReturned ==
    fn_name = "extract_image_infos" /\ fn_output.kind = "Returned"

\* All annotations of the manifest in document order, each with the index
\* of its canvas.
AnnotationsInOrder ==
    LET m == fn_input.manifest
    IN concat([k \in 1..Len(m.items) |->
                  LET annos == concat(m.items[k].items)
                  IN [a \in 1..Len(annos) |->
                         [annotation |-> annos[a], canvas_index |-> k - 1]]])

\* The manifest has one annotation, and it has a body.
OneBody ==
    /\ Len(AnnotationsInOrder) = 1
    /\ IsSome(AnnotationsInOrder[1].annotation.body)

TheBody == Unwrap(AnnotationsInOrder[1].annotation.body)

\* The service the claim prefers: the first ImageService3, else the first
\* ImageService2, else the first other image service with an id; 0 for none.
PreferredService ==
    LET sv == TheBody.service
        Of(t) == {k \in 1..Len(sv) : sv[k].service_type = t}
        others == {k \in 1..Len(sv) :
                      /\ sv[k].service_type = "ImageService1"
                      /\ sv[k].id # <<>>}
        Least(S) == CHOOSE k \in S : \A j \in S : k <= j
    IN IF Of("ImageService3") # {} THEN Least(Of("ImageService3"))
       ELSE IF Of("ImageService2") # {} THEN Least(Of("ImageService2"))
       ELSE IF others # {} THEN Least(others)
       ELSE 0

IsPaintingImage(entry) ==
    /\ entry.annotation.motivation = Some("painting")
    /\ IsSome(entry.annotation.body)
    /\ IsSome(final_image_uri(Unwrap(entry.annotation.body),
                              fn_input.manifest_url))

\* C25: extract_image_infos yields an image only for annotations whose
\* motivation is "painting" and whose body is an image; an annotation with
\* another motivation or none yields nothing.  The images come out in
\* document order (canvas, annotation page, annotation), each with the
\* 0-based index of its canvas, so canvas_index never decreases.
C25_PaintingOnly ==
    ExtractReturned =>
        LET expected == SelectSeq(AnnotationsInOrder, IsPaintingImage)
            infos == fn_output.value
        IN /\ Len(infos) = Len(expected)
           /\ \A k \in 1..Len(infos) :
                  /\ infos[k].canvas_index = expected[k].canvas_index
                  /\ Some(infos[k].image_uri) =
                         final_image_uri(
                             Unwrap(expected[k].annotation.body),
                             fn_input.manifest_url)
           /\ \A j, k \in 1..Len(infos) :
                  j <= k => infos[j].canvas_index <= infos[k].canvas_index


(***************************************************************************)
(* C24: the fallback of IIIF::dezoomer_result.                             *)
(***************************************************************************)
\* The first IIIF instance has answered for a document whose type the
\* quick check does not know.
TypeUndetermined ==
    /\ pur_dezoomer = "iiif"
    /\ pur_first # PurNoResult
    /\ IsSome(pur_input.contents)
    /\ Unwrap(pur_input.contents).type
           \notin {Some("ImageService2"), Some("ImageService3"),
                    Some("iiif:ImageProfile"), Some("Manifest")}

\* The contents parse as info.json.
ParsesAsInfo == IsSome(Unwrap(pur_input.contents).info)

\* The contents parse as a manifest with at least one image.
ParsesAsManifest ==
    /\ IsSome(Unwrap(pur_input.contents).manifest)
    /\ \E k \in 1..Len(Unwrap(Unwrap(pur_input.contents).manifest).items) :
           Unwrap(Unwrap(pur_input.contents).manifest).items[k].items # <<>>

\* The answer is the image of the info.json.
AnsweredInfo ==
    pur_first = from_single_image(Unwrap(Unwrap(pur_input.contents).info))

\* The answer is the list of image urls of the manifest.
AnsweredManifest ==
    /\ pur_first.kind = "Ok"
    /\ pur_first.items # <<>>
    /\ \A k \in 1..Len(pur_first.items) :
           pur_first.items[k].kind = "ImageUrl"

\* C24: when the type of the document cannot be determined, dezoomer_result
\* first tries to parse the contents as info.json and only if that fails
\* tries to parse them as a manifest.
C24_InfoFirst ==
    TypeUndetermined =>
        /\ ParsesAsInfo => AnsweredInfo
        /\ (~ParsesAsInfo /\ ParsesAsManifest) => AnsweredManifest

\* C24 as the code has it: info.json is tried first only for a uri that
\* ends with "/info.json"; for any other uri the manifest is tried first
\* and info.json only when the manifest gives no image.
C24_InfoFirstForInfoJsonUri ==
    TypeUndetermined =>
        IF ends_with(pur_input.uri, "/info.json")
        THEN /\ ParsesAsInfo => AnsweredInfo
             /\ (~ParsesAsInfo /\ ParsesAsManifest) => AnsweredManifest
        ELSE /\ ParsesAsManifest => AnsweredManifest
             /\ (~ParsesAsManifest /\ ParsesAsInfo) => AnsweredInfo

\* For a uri that ends with "/info.json" the contents failed to parse as
\* info.json and the manifest was taken; the same contents under another
\* uri would be a case where both parses succeed.
C24_Witness ==
    /\ TypeUndetermined
    /\ ends_with(pur_input.uri, "/info.json")
    /\ ~ParsesAsInfo
    /\ ParsesAsManifest
    /\ AnsweredManifest


(***************************************************************************)
(* C26: IiifLabel::get_english_or_first.                                   *)
(***************************************************************************)
LabelReturned ==
    fn_name = "get_english_or_first" /\ fn_output.kind = "Returned"

\* The non-empty strings the label holds in the languages that pass the
\* test.
NonEmptyStrings(InLang(_)) ==
    IF fn_input.label.kind = "String"
    THEN {fn_input.label.s} \ {""}
    ELSE UNION {{e[2][k] : k \in 1..Len(e[2])} :
                   e \in {d \in fn_input.label.entries : InLang(d[1])}}
             \ {""}

\* C26: get_english_or_first prefers English and otherwise takes the first
\* non-empty label: it returns the English string when the label has a
\* non-empty English string, otherwise a non-empty string of another
\* language, and returns None exactly when the label holds no non-empty
\* string at all.
C26_EnglishOrFirst ==
    LabelReturned =>
        LET IsEnglish(l) == l = "en"
            AnyLang(l) == TRUE
            english == IF fn_input.label.kind = "Map"
                       THEN NonEmptyStrings(IsEnglish) ELSE {}
            all == NonEmptyStrings(AnyLang)
        IN /\ english # {} => fn_output.value \in {Some(t) : t \in english}
           /\ (english = {} /\ all # {}) =>
                  fn_output.value \in {Some(t) : t \in all}
           /\ fn_output.value = NoneOpt <=> all = {}


(***************************************************************************)
(* C27: parse_text_urls.                                                   *)
(***************************************************************************)
ParseReturned == fn_name = "parse_text_urls" /\ fn_output.kind = "Returned"

\* The positions of the words of line l that are not whitespace.
Inked(l) == {k \in 1..Len(l) : l[k] # Space}

Least(S) == CHOOSE k \in S : \A j \in S : k <= j

Greatest(S) == CHOOSE k \in S : \A j \in S : j <= k

\* The line is neither blank nor a comment.
IsUrlLine(l) == Inked(l) # {} /\ l[Least(Inked(l))][1] # "#"

\* The first whitespace-delimited token of the line.
FirstToken(l) == l[Least(Inked(l))]

\* What follows the whitespace character after the first token, up to the
\* last word that is not whitespace.
RestOfLine(l) ==
    concat(SubSeq(l, Least(Inked(l)) + 2, Greatest(Inked(l))))

\* The last non-empty path segment of a url without its extension; empty
\* if the token is no url or has no such segment.
Stem(u) ==
    IF u[1] # "http://h" THEN <<>>
    ELSE LET named == {k \in 3..Len(u) : u[k] # "/"}
         IN IF named = {} THEN <<>>
            ELSE LET last == Greatest(named)
                     first == Least({k \in 3..last :
                                        \A j \in k..last : u[j] # "/"})
                     dots == {k \in first..last : u[k] \in {".jpg", ".b"}}
                 IN IF dots = {} THEN SubSeq(u, first, last)
                    ELSE SubSeq(u, first, Greatest(dots) - 1)

\* The n-th line of the input that is neither blank nor a comment.
UrlLine(n) ==
    CHOOSE k \in 1..Len(fn_input) :
        /\ IsUrlLine(fn_input[k])
        /\ Cardinality({j \in 1..k : IsUrlLine(fn_input[j])}) = n

\* C27: parse_text_urls yields exactly one entry per line that, after
\* trimming, is neither blank nor starts with "#", in line order; the
\* entry's url is the first whitespace-delimited token, its title the rest
\* of the line when non-empty, otherwise the url's last non-empty path
\* segment without its extension, otherwise "URL_<n>" with n the 1-based
\* line number.  Every entry has a title.
C27_OneEntryPerLine ==
    (ParseReturned /\ fn_output.value.kind = "Ok") =>
        LET items == fn_output.value.items
        IN /\ Len(items) =
                  Cardinality({k \in 1..Len(fn_input) :
                                  IsUrlLine(fn_input[k])})
           /\ \A n \in 1..Len(items) :
                  LET l == fn_input[UrlLine(n)]
                  IN /\ items[n].url = FirstToken(l)
                     /\ IsSome(items[n].title)
                     /\ Unwrap(items[n].title) =
                            IF RestOfLine(l) # <<>> THEN RestOfLine(l)
                            ELSE IF Stem(FirstToken(l)) # <<>>
                            THEN Stem(FirstToken(l))
                            ELSE <<"URL_", ToString(UrlLine(n))>>

\* A blank line, then a url whose only path segment is an extension, with
\* spaces around: one entry, titled with the line number 2.
C27_Witness ==
    /\ ParseReturned
    /\ fn_input = <<<<Space>>,
                    <<Space, <<"http://h", "/", ".jpg">>, Space>>>>
    /\ fn_output.value.kind = "Ok"
    /\ fn_output.value.items =
           <<[kind |-> "ImageUrl", url |-> <<"http://h", "/", ".jpg">>,
              title |-> Some(<<"URL_", "2">>)]>>


(***************************************************************************)
(* C28: bulk-text parsing is all-or-nothing.                               *)
(***************************************************************************)
\* The first bulk_text instance has answered for the text of a bulk file.
BulkParsed ==
    /\ pur_dezoomer = "bulk_text"
    /\ pur_first # PurNoResult
    /\ is_bulk_file(pur_input.uri)
    /\ IsSome(pur_input.contents)
    /\ Unwrap(pur_input.contents).utf8

BulkLines == Unwrap(pur_input.contents).lines

\* The lines that are neither blank nor comments and whose first token is
\* neither a url, an existing path nor a template.
InvalidLines ==
    {k \in 1..Len(BulkLines) :
        /\ IsUrlLine(BulkLines[k])
        /\ LET token == FirstToken(BulkLines[k])
           IN /\ token[1] # "http://h"
              /\ token \notin pur_fs
              /\ \A j \in 1..Len(token) : token[j] \notin {"{{X}}", "{{Y}}"}}

\* C28: if the first token of any non-skipped line is neither a parsable
\* url, an existing local path nor a template with {{X}} or {{Y}}, the whole
\* parse fails with an error naming the 1-based physical line number and
\* the offending token, and no image is returned even for valid earlier
\* lines; an input without any url line also yields an error, so a
\* successful result is never empty.
C28_AllOrNothing ==
    BulkParsed =>
        /\ InvalidLines # {} =>
               /\ pur_first.kind = "Err"
               /\ pur_first.items = <<>>
               /\ pur_first.data.error = "InvalidUrlOrPath"
               /\ pur_first.data.line_number = Least(InvalidLines)
               /\ pur_first.data.input =
                      FirstToken(BulkLines[Least(InvalidLines)])
        /\ (\A k \in 1..Len(BulkLines) : ~IsUrlLine(BulkLines[k])) =>
               pur_first.kind = "Err"
        /\ pur_first.kind = "Ok" => pur_first.items # <<>>

\* A valid url line followed by an invalid one: the error names line 2 and
\* its token, and no image is returned.
C28_Witness ==
    /\ BulkParsed
    /\ BulkLines = <<<<UrlWord>>, <<OtherWord>>>>
    /\ pur_first =
           PurInvalidUrlOrPath(2, OtherWord)


(***************************************************************************)
(* C29: Zoomify tile groups.                                               *)
(***************************************************************************)
TileUrlReturned == fn_name = "tile_url" /\ fn_output.kind = "Returned"

\* The number of tiles along one dimension d of level z when the image has
\* n levels: the dimension divided by 2 ^ (n - 1 - z) and by the tile size,
\* both rounded up.
TilesAlong(d, z, n) ==
    LET scale == 2 ^ (n - 1 - z)
        pixels == (d + scale - 1) \div scale
    IN (pixels + fn_input.props.tile_size - 1) \div fn_input.props.tile_size

\* The number of levels: the least n whose smallest level is one tile.
LevelCount ==
    Least({n \in 1..20 :
              /\ (fn_input.props.width + 2 ^ (n - 1) - 1) \div 2 ^ (n - 1)
                     <= fn_input.props.tile_size
              /\ (fn_input.props.height + 2 ^ (n - 1) - 1) \div 2 ^ (n - 1)
                     <= fn_input.props.tile_size})

RECURSIVE TilesBelow(_)
TilesBelow(z) ==
    IF z = 0 THEN 0
    ELSE TilesBelow(z - 1)
             + TilesAlong(fn_input.props.width, z - 1, LevelCount)
                   * TilesAlong(fn_input.props.height, z - 1, LevelCount)

\* The running number of the tile: row-major, continuing across the levels
\* from the smallest one up.
RunningNumber ==
    TilesBelow(fn_input.level)
        + fn_input.pos.y
              * TilesAlong(fn_input.props.width, fn_input.level, LevelCount)
        + fn_input.pos.x

\* The url {base}/TileGroup{g}/{z}-{x}-{y}.jpg.
UrlInGroup(g) ==
    <<"http://x.fr/y", "/TileGroup", ToString(g), "/",
      ToString(fn_input.level), "-", ToString(fn_input.pos.x), "-",
      ToString(fn_input.pos.y), ".jpg">>

\* The tile is in column 0 of level 5 of the 12000x9788 image.
InExampleColumn ==
    /\ fn_input.props = [width |-> 12000, height |-> 9788, tile_size |-> 256]
    /\ fn_input.level = 5
    /\ fn_input.pos.x = 0

\* C29: tiles are numbered in row-major order continuing across levels from
\* the smallest level up, and the tile with running number i lies in
\* TileGroup floor(i / 256); for a 12000x9788 image with tile size 256,
\* level 5 column 0 is in TileGroup1 for y <= 14 and in TileGroup2 from
\* y = 15.  The tile url is {base}/TileGroup{g}/{z}-{x}-{y}.jpg with base
\* the url before "/ImageProperties.xml".
C29_TileGroups ==
    TileUrlReturned =>
        /\ fn_output.value = UrlInGroup(RunningNumber \div 256)
        /\ InExampleColumn =>
               fn_output.value =
                   UrlInGroup(IF fn_input.pos.y <= 14 THEN 1 ELSE 2)

\* C29 with the groups of the example as they are: TileGroup0 for y <= 3,
\* TileGroup1 for y from 4 to 14, TileGroup2 from y = 15.
C29_TileGroupsFromZero ==
    TileUrlReturned =>
        /\ fn_output.value = UrlInGroup(RunningNumber \div 256)
        /\ InExampleColumn =>
               fn_output.value =
                   UrlInGroup(IF fn_input.pos.y <= 3 THEN 0
                              ELSE IF fn_input.pos.y <= 14 THEN 1 ELSE 2)

\* The tile of column 0 and row 15 of level 5 is in TileGroup2.
C29_Witness ==
    /\ TileUrlReturned
    /\ InExampleColumn
    /\ fn_input.pos.y = 15
    /\ fn_output.value =
           <<"http://x.fr/y", "/TileGroup", "2", "/", "5", "-", "0", "-",
             "15", ".jpg">>


(***************************************************************************)
(* C30: max_size_in_rect clips the tile to the canvas.                     *)
(***************************************************************************)
RectCalled == fn_name = "max_size_in_rect" /\ fn_output # NoOutput

\* min(p + s, C) - p on the integers, for one component k.
Clipped(k) ==
    Min(fn_input.position[k] + fn_input.tile_size[k], fn_input.canvas_size[k])
        - fn_input.position[k]

\* C30: for every position p <= C, max_size_in_rect(p, s, C) is
\* min(p + s, C) - p componentwise; the result is <= s componentwise and
\* p + result <= C: the clipped tile never extends beyond the canvas.
C30_ClippedInCanvas ==
    RectCalled =>
        /\ fn_output.kind = "Returned"
        /\ fn_output.value = Vec2d(Clipped(1), Clipped(2))
        /\ fn_output.value.x <= fn_input.tile_size[1]
        /\ fn_output.value.y <= fn_input.tile_size[2]
        /\ fn_input.position[1] + fn_output.value.x <= fn_input.canvas_size[1]
        /\ fn_input.position[2] + fn_output.value.y <= fn_input.canvas_size[2]


(***************************************************************************)
(* C31: find_zoomlevel chooses the image before it resolves anything.      *)
(***************************************************************************)
\* C31: find_zoomlevel resolves at most one image, and only the one
\* choose_image returned, never another image of the result; choose_level
\* is called at most once and only after that resolution succeeded, and
\* find_zoomlevel returns a level only after exactly one resolution.
C31_ChosenBeforeResolved ==
    /\ Len(fz_resolved) <= 1
    /\ Len(fz_resolved) = 1 =>
           /\ ch_pc = "done"
           /\ ch_result.kind = "Ok"
           /\ fz_resolved[1] = ch_result.image
           /\ fz_resolved[1] = images[Unwrap(ch_result.index) + 1]
    /\ fz_level_calls <= 1
    /\ fz_level_calls = 1 => Len(fz_resolved) = 1 /\ IsSome(fz_levels)
    /\ fz_result.kind \in {"Ok", "Prompt"} => fz_level_calls = 1

\* Of several images the second was chosen and resolved, and a level of it
\* was returned.
C31_Witness ==
    /\ Len(images) > 1
    /\ fz_resolved = <<images[2]>>
    /\ fz_level_calls = 1
    /\ fz_result.kind = "Ok"


(***************************************************************************)
(* C32, C33, C34: dezoomify_level and the encoder, checked under Spec.     *)
(***************************************************************************)
\* The batch loop has ended: every batch that was requested has returned
\* and its fetch result was passed on.
LoopEnded ==
    /\ in_flight = 0
    /\ pending = 0
    /\ batches_returned = batches_requested
    /\ fetch_results = batches_requested

\* C32: dezoomify_level calls the encoder's finalize at most once, only
\* after the batch loop has ended, and adds no tile to the encoder after
\* finalize.
C32_EncoderProtocol ==
    /\ [](finalize_calls <= 1)
    /\ [](finalize_calls = 1 =>
              LoopEnded /\ finalized_at = batches_requested)
    /\ [][finalize_calls' # finalize_calls => LoopEnded]_vars
    /\ [][finalize_calls >= 1 => canvas_tiles' = canvas_tiles]_vars

\* Tiles of every batch were added, then finalize was called.
C32_Witness ==
    /\ finalize_calls = 1
    /\ batches_returned = MaxBatches
    /\ canvas_tiles > 1

\* C33: when the batch loop ends with no successful tile, dezoomify_level
\* returns NoTile and never calls finalize: as long as no tile succeeded
\* nothing is finalized and nothing is written.
C33_NoTileBeforeFinalize ==
    /\ state.successful_tiles = 0 =>
           /\ finalize_calls = 0
           /\ output_tiles = -1
           /\ pc \notin {"finalize", "classify"}
    /\ (pc = "done" /\ state.successful_tiles = 0 /\ result.kind # "Fatal")
           => result.kind = "NoTile"
    /\ result.kind = "NoTile" =>
           /\ state.successful_tiles = 0
           /\ finalize_calls = 0

\* Two batches were downloaded, every tile failed, and NoTile was returned.
C33_Witness ==
    /\ result.kind = "NoTile"
    /\ batches_returned = MaxBatches
    /\ state.failed_tiles = state.total_tiles
    /\ state.total_tiles > 1

\* download_batch returned a fatal error.
BatchFatal == result.kind = "Fatal" /\ batches_requested > 0

\* C34: a fatal error of download_batch ends dezoomify_level with that
\* error: no further batch is requested, set_fetch_result is not called
\* for the failed batch, and the encoder is not finalized.
C34_FatalAborts ==
    /\ [](BatchFatal =>
              /\ pc = "done"
              /\ batches_requested = batches_returned + 1
              /\ fetch_results = batches_returned
              /\ finalize_calls = 0
              /\ output_tiles = -1)
    /\ [][BatchFatal => UNCHANGED levelVars]_vars

\* The second batch failed fatally after a tile of it was added.
C34_Witness ==
    /\ BatchFatal
    /\ batches_requested = MaxBatches
    /\ fetch_results = MaxBatches - 1
    /\ canvas_tiles > 1


(***************************************************************************)
(* C35: a Canvas.add_tile that fails, checked under SpecCanvas.            *)
(***************************************************************************)
\* C35: an add_tile call that returns an error leaves the canvas as it
\* was: neither its pixels nor its captured ICC profile differ from before
\* the call.
C35_ErrorLeavesCanvas ==
    cv_result = InvalidData =>
        /\ image = cv_before
        /\ icc_profile = cv_icc_before


(***************************************************************************)
(* C36: the fields of a PngEncoder, checked under SpecPng.                 *)
(***************************************************************************)
\* C36: in every reachable state of a PngEncoder first_tile is true
\* exactly when the file is still held and no pixel streamer exists, so
\* write_header_with_metadata is never entered without the file (which is
\* a panic), also on the call after a failed header write.
C36_FirstTileHoldsFile ==
    /\ first_tile <=> (file /\ ~IsSome(pixel_streamer))
    /\ png_result # PngPanic


(***************************************************************************)
(* C37: GAPDezoomer.page_info is written once, checked under SpecGap.      *)
(***************************************************************************)
\* The last call was given a landing page that parses.
GapParsedPage ==
    /\ gap_input.contents.kind = "Success"
    /\ IsSome(Unwrap(gap_input.contents.doc).page)

\* What C37 says of the last call, but for NeedsData: page_info is set only
\* by a call that parsed a landing page while it was unset, a call that
\* fails leaves it unchanged, once set it is never cleared or replaced,
\* and a later call with contents is handled as a tile-info call.
GapWrittenOnce ==
    gap_calls > 0 =>
        /\ page_info # gap_before =>
               /\ ~IsSome(gap_before)
               /\ GapParsedPage
               /\ page_info = Unwrap(gap_input.contents.doc).page
               /\ gap_result = GapNeedsData(tile_info_url(Unwrap(page_info)))
        /\ gap_result.kind \in {"WrongDezoomer", "DownloadError", "Other"}
               => page_info = gap_before
        /\ gap_input.contents.kind = "Unknown" => page_info = gap_before
        /\ IsSome(gap_before) => page_info = gap_before
        /\ (IsSome(gap_before) /\ gap_input.contents.kind = "Success"
                /\ gap_result.kind # "WrongDezoomer")
               => /\ gap_result.kind \in {"Ok", "Other", "Panic"}
                  /\ gap_result.kind = "Other"
                         <=> ~IsSome(Unwrap(gap_input.contents.doc).tiles)

\* C37: page_info is written at most once per instance: it is set only by
\* a call that parsed a landing page while it was unset; a call that fails
\* leaves it unchanged; once set it is never cleared or replaced, every
\* later accepted call is handled as a tile-info call, and no later call
\* returns NeedsData.
C37_PageInfoOnce ==
    /\ [](GapWrittenOnce)
    /\ [](IsSome(gap_before) => gap_result.kind # "NeedsData")
    /\ [][IsSome(page_info) => page_info' = page_info]_vars

\* C37, with NeedsData only for a later call without contents: such a call
\* asks for its own uri; no later call with contents returns NeedsData.
C37_PageInfoOnceWithContents ==
    /\ [](GapWrittenOnce)
    /\ []((IsSome(gap_before) /\ gap_result.kind = "NeedsData") =>
              /\ gap_input.contents.kind = "Unknown"
              /\ gap_result.uri = gap_input.uri)
    /\ [][IsSome(page_info) => page_info' = page_info]_vars

\* The first call stored the page info, the second built the levels with
\* it.
C37_Witness ==
    /\ gap_calls = 2
    /\ IsSome(gap_before)
    /\ page_info = gap_before
    /\ gap_prev.kind = "NeedsData"
    /\ gap_result.kind = "Ok"
    /\ Len(gap_result.levels) = MaxPyramid


(***************************************************************************)
(* C38: the region and the size of an IIIF tile, checked under             *)
(* SpecIiifTile.                                                           *)
(***************************************************************************)
IiifTileCalled == fn_name = "iiif_tile_url" /\ fn_output # NoOutput

\* x = c * T * f for a column or row c, on the integers.
RegionStart(c, t, f) == c * t * f

\* w = min(T * f, W - x), on the integers.
RegionLength(c, t, f, total) == Min(t * f, total - RegionStart(c, t, f))

\* C38: for every tile (c, r) of the grid of an IIIF level, tile_url asks
\* for the region x = c*T*f, y = r*T*f, w = min(T*f, W - x),
\* h = min(T*f, H - y) and the size (w div f, h div f); the region lies
\* inside the image, the subtraction does not underflow (the call
\* returns), and both components of the size are at least 1.
C38_RegionInsideImage ==
    IiifTileCalled =>
        LET lvl == fn_input.lvl
            f == lvl.scale_factor
            c == fn_input.col_and_row_pos.x
            r == fn_input.col_and_row_pos.y
            w == RegionLength(c, lvl.tile_size.x, f, lvl.page_size.x)
            h == RegionLength(r, lvl.tile_size.y, f, lvl.page_size.y)
        IN /\ fn_output.kind = "Returned"
           /\ fn_output.value =
                  [x |-> RegionStart(c, lvl.tile_size.x, f),
                   y |-> RegionStart(r, lvl.tile_size.y, f),
                   img_w |-> w, img_h |-> h,
                   w |-> w \div f, h |-> h \div f]
           /\ fn_output.value.x + fn_output.value.img_w <= lvl.page_size.x
           /\ fn_output.value.y + fn_output.value.img_h <= lvl.page_size.y
           /\ fn_output.value.w >= 1
           /\ fn_output.value.h >= 1


(***************************************************************************)
(* C39: a usable image service is never passed over, checked under         *)
(* SpecExtract.                                                            *)
(***************************************************************************)
\* The body lists an ImageService2 or ImageService3 with a non-empty id.
ListsUsableService ==
    \E k \in 1..Len(TheBody.service) :
        /\ TheBody.service[k].service_type
               \in {"ImageService2", "ImageService3"}
        /\ TheBody.service[k].id # <<>>

\* C39: whenever an image body lists at least one ImageService2 or
\* ImageService3 entry with a non-empty id, the image uri extracted for the
\* body is derived from a service: it ends with "/info.json" and is never
\* the body's own image id.
C39_ServiceNeverPassedOver ==
    (ExtractReturned /\ OneBody /\ ListsUsableService) =>
        LET infos == fn_output.value
        IN /\ Len(infos) = 1
           /\ infos[1].image_uri[Len(infos[1].image_uri)] = "/info.json"
           /\ infos[1].image_uri
                  # resolve_relative(fn_input.manifest_url, TheBody.id)

====
